---- MODULE Spec2Model ----
(***************************************************************************)
(* moodle-painkillers: the Shibboleth SSO handshake (authenticate_on_moodle *)
(* in its two implementations), the presence registration                  *)
(* (register_presence_status) and the run that chains them (main, and the  *)
(* context manager MoodleAuthenticatedSession); the invocation shell       *)
(* (parse_args, __main__) and the notifiers.                               *)
(*                                                                         *)
(* Specifications: Spec (a run from the call of authenticate_on_moodle),   *)
(* SpecRuns (runs in a row against a server that remembers the check-in),  *)
(* SpecMain (the process, from parse_args to its exit), SpecArgs (every    *)
(* command line and environment, up to the first answer) and SpecNotifier  *)
(* (one call of one notifier).                                             *)
(*                                                                         *)
(* A run is one thread of control.  The remote servers are the             *)
(* environment: every request is answered by a response chosen             *)
(* nondeterministically (status, cookies, final URL, body).  Bodies are    *)
(* modelled at the level bs4 presents them: a document is the sequence of  *)
(* its tags in document order, a tag has a name, an attribute dictionary   *)
(* and a string; the raw text searched by `in res.text` is a sequence of   *)
(* text chunks.  URLs are sequences of segments, "?" being the query       *)
(* separator.                                                              *)
(***************************************************************************)
EXTENDS Integers, Sequences, FiniteSets, TLC

VARIABLES
    impl,                 \* which authenticator runs: "function" (main) or "class"
    username, password,   \* the credentials of the run
    pc,                   \* position of the run in the code
    res,                  \* the local `res`: the last response received
    statuses,             \* the status of every response received, in order
    execution_value,      \* local of authenticate_on_moodle
    relaystate_value,     \* local of authenticate_on_moodle
    samlresponse_value,   \* local of authenticate_on_moodle
    link_status_href,     \* local of register_presence_status
    requests,             \* every request issued on the session, in order
    raised,               \* the exception that left the run, or NoError
    closed,               \* session.close() has been called
    argv, environ,        \* the command-line flags and the environment variables
    consulted,            \* the environment variables os.getenv was asked for
    args,                 \* the Args that parse_args returned
    sessions,             \* how many rq.Session() were created
    calls,                \* the calls main has made, in order
    message,              \* the local `message` of __main__
    notified,             \* the notifications handed to a notifier, in order
    exit_status,          \* the exit status of the process
    host,                 \* what a notifier finds on the machine it runs on
    other,                \* the run that is not executing now, when there are two
    active,               \* which of the two runs is executing: 1 or 2
    tape,                 \* lockstep: where the second run stood when handed the turn
    entered,              \* the session that __enter__ returned (0: none yet)
    registered,           \* server side: a check-in has been registered
    checkins,             \* server side: check-in requests received, all runs
    outcomes              \* how the runs that are over ended, in order

\* the state of the invocation shell (__main__) and of the notifiers
\* a second run and what is kept for it
peers == <<other, active, tape>>

shell == <<argv, environ, consulted, args, sessions, message, notified, exit_status,
           host, peers, entered>>

\* the state of the attendance server across runs
server == <<registered, checkins, outcomes>>

vars == <<impl, username, password, pc, res, statuses, execution_value,
          relaystate_value, samlresponse_value, link_status_href, requests, raised,
          closed, shell, calls, server>>

----------------------------------------------------------------------------
(* Bounds of the model *)

MaxDocLen == 2      \* tags in a response document
MaxTextLen == 2     \* text chunks in the check-in response

----------------------------------------------------------------------------
(* Literals of the source *)

LOGIN_URL == <<"https://moodle.univ-ubs.fr/auth/shibboleth/login.php">>
SAML_URL == <<"https://moodle.univ-ubs.fr/Shibboleth.sso/SAML2/POST">>
ATTENDANCE_URL ==
    <<"https://moodle.univ-ubs.fr/mod/attendance/view.php", "?", "id=433340">>
IDP == "urn:mace:cru.fr:federation:univ-ubs.fr"
PRESENCE_LABEL == "Envoyer le statut de présence"
\* "Votre présence à cette session a été enregistrée." cut in two chunks, so
\* that a text can hold a part of it without holding it
CONFIRMATION == <<"Votre présence à cette session", " a été enregistrée.">>

----------------------------------------------------------------------------
(* The environment: what a server may answer *)

Statuses == {200, 404, 500}
CookieJars == {"cookie-A", "cookie-B"}
Values == {"v1", "v2"}
Credentials == {<<"alice", "s3cret">>, <<"bob", "hunter2">>}
\* final URLs of the IdP-discovery response: without query, with one, with
\* two separators, starting with the separator, empty
ResponseUrls ==
    { <<"idp/login">>,
      <<"idp/login", "?", "k=1">>,
      <<"idp/login", "?", "k=1", "?", "k=2">>,
      <<"?", "k=1">>,
      <<>> }
Hrefs == { <<"/x">>, <<"/y">> }

InputTypes == {"hidden", "text"}
\* <input type=.. name=.. value=..> and <input type=.. name=..>, for the
\* names of Names
InputTags(Names) ==
    { [tag |-> "input", attrs |-> [type |-> t, name |-> n, value |-> v], string |-> ""] :
        t \in InputTypes, n \in Names, v \in Values }
    \cup
    { [tag |-> "input", attrs |-> [type |-> t, name |-> n], string |-> ""] :
        t \in InputTypes, n \in Names }

AnchorStrings == {PRESENCE_LABEL, "Envoyer le statut de présence "}
\* <a class=.. href=..>string</a> and <a class=..>string</a>
AnchorTags ==
    { [tag |-> "a", attrs |-> [class |-> "btn", href |-> h], string |-> s] :
        h \in Hrefs, s \in AnchorStrings }
    \cup
    { [tag |-> "a", attrs |-> [class |-> "btn"], string |-> s] : s \in AnchorStrings }

SeqsUpTo(S, n) == UNION { [1..k -> S] : k \in 0..n }

\* the login form of the identity provider, and the page that answers the
\* credentials
LoginForms == SeqsUpTo(InputTags({"execution", "execution2"}), MaxDocLen)
SamlPages == SeqsUpTo(InputTags({"RelayState", "SAMLResponse"}), MaxDocLen)
AttendancePages == SeqsUpTo(AnchorTags, MaxDocLen)
TextChunks == {CONFIRMATION[1], CONFIRMATION[2], "Erreur"}
Texts == SeqsUpTo(TextChunks, MaxTextLen)

Response(status, cookies, url, soup, text) ==
    [status |-> status, cookies |-> cookies, url |-> url, soup |-> soup, text |-> text]

NoResponse == Response(0, "", <<>>, <<>>, <<>>)

----------------------------------------------------------------------------
(* Exceptions *)

Error(type, msg) == [type |-> type, msg |-> msg]
NoError == Error("None", <<>>)

\* f"{res.status_code}"
StatusStr(s) ==
    CASE s = 200 -> "200"
      [] s = 404 -> "404"
      [] s = 500 -> "500"
      [] OTHER -> "0"

----------------------------------------------------------------------------
(* get_hidden_input_value *)

\* str.lower() on the field names of the model
Lower(v) == IF v = "EXECUTION" THEN "execution" ELSE v

\* mutant: attribute values are compared without regard to case
MatchingIgnoringCase(soup, tag, attrs) ==
    { i \in 1..Len(soup) :
        /\ soup[i].tag = tag
        /\ \A a \in DOMAIN attrs :
              a \in DOMAIN soup[i].attrs /\ Lower(soup[i].attrs[a]) = Lower(attrs[a]) }

\* soup.find(tag, attrs): the tags that match, by index
Matching(soup, tag, attrs) ==
    { i \in 1..Len(soup) :
        /\ soup[i].tag = tag
        /\ \A a \in DOMAIN attrs :
              a \in DOMAIN soup[i].attrs /\ soup[i].attrs[a] = attrs[a] }

Min(S) == CHOOSE m \in S : \A n \in S : m <= n

\* the result of a call: the exception it raised (NoError when it returned)
\* and the value it returned
Result(err, value) == [err |-> err, value |-> value]

\* mutant: the lookup forgets the type="hidden" criterion
get_input_value_of_any_type(soup, name) ==
    LET found == Matching(soup, "input", [name |-> name])
    IN  IF found = {}
        THEN Result(Error("ValueError", <<"Element ", name, " introuvable">>), "")
        ELSE LET input_element == soup[Min(found)]
             IN  IF "value" \in DOMAIN input_element.attrs
                 THEN Result(NoError, input_element.attrs.value)
                 ELSE Result(Error("KeyError", <<"value">>), "")

\* mutant: the last matching element is read instead of the first
get_last_hidden_input_value(soup, name) ==
    LET found == Matching(soup, "input", [type |-> "hidden", name |-> name])
    IN  IF found = {}
        THEN Result(Error("ValueError", <<"Element ", name, " introuvable">>), "")
        ELSE LET input_element == soup[CHOOSE m \in found : \A n \in found : m >= n]
             IN  IF "value" \in DOMAIN input_element.attrs
                 THEN Result(NoError, input_element.attrs.value)
                 ELSE Result(Error("KeyError", <<"value">>), "")

get_hidden_input_value(soup, name) ==
    LET found == Matching(soup, "input", [type |-> "hidden", name |-> name])
    IN  IF found = {}
        THEN Result(Error("ValueError", <<"Element ", name, " introuvable">>), "")
        ELSE LET input_element == soup[Min(found)]
             IN  IF "value" \in DOMAIN input_element.attrs
                 THEN Result(NoError, input_element.attrs.value)
                 ELSE Result(Error("KeyError", <<"value">>), "")

----------------------------------------------------------------------------
(* Requests *)

Request(method, url, cookies, data) ==
    [method |-> method, url |-> url, cookies |-> cookies, data |-> data]

\* mutant: the URL of the response is used as it is
WithQuery(url) == url

\* res.url.split("?")[0]
RECURSIVE BeforeQuery(_)
BeforeQuery(url) ==
    IF url = <<>> \/ Head(url) = "?"
    THEN <<>>
    ELSE <<Head(url)>> \o BeforeQuery(Tail(url))


\* session.get / session.post: the request goes out and its response comes
\* back
RoundTrip(request, response) ==
    /\ requests' = Append(requests, request)
    /\ res' = response
    /\ statuses' = Append(statuses, response.status)

\* raise err: the exception leaves the run
Raise(err) ==
    /\ raised' = err
    /\ pc' = "Raised"

\* a body that has been parsed and searched is not read again
Consumed(r) == [r EXCEPT !.soup = <<>>, !.text = <<>>]

----------------------------------------------------------------------------
(* The command line, the environment and the Args of a run *)

\* Python's None: a flag that was not given, a variable that is not set
None == "<None>"

\* bool(v) of an optional string
Truthy(v) == v # None /\ v # ""

\* a or b
Or(a, b) == IF Truthy(a) THEN a ELSE b

Fields == {"username", "password", "discord_webhook"}

\* the environment variable that backs each field
EnvName(f) ==
    CASE f = "username" -> "MOODLE_USERNAME"
      [] f = "password" -> "MOODLE_PASSWORD"
      [] f = "discord_webhook" -> "DISCORD_WEBHOOK"

\* what a flag and what an environment variable can hold
FlagValues == {None, "", "flag"}
EnvValues == {None, "", "env"}

\* dataclass Args
Args(u, p, w) == [username |-> u, password |-> p, discord_webhook |-> w]

\* no Args yet
NoArgs == Args(None, None, None)

\* a run whose command line and environment are not looked at
NoInputs == [f \in Fields |-> None]

\* a call of main: the callee, the session and the credentials it is given
Call(fn, session, u, p) == [fn |-> fn, session |-> session, username |-> u, password |-> p]

\* no notifier is running
NoHost == [notifier |-> "none"]

\* there is no second run
NoRun == [pc |-> "None"]
Alone ==
    /\ other = NoRun
    /\ active = 1
    /\ tape = <<>>

\* the variables of the shell and of the notifiers when the run starts inside
\* authenticate_on_moodle with the credentials u and p
Called(u, p) ==
    /\ argv = NoInputs
    /\ environ = NoInputs
    /\ consulted = {}
    /\ args = Args(u, p, "")
    /\ sessions = 1
    /\ calls = <<Call("authenticate_on_moodle", 1, u, p)>>
    /\ message = <<>>
    /\ notified = <<>>
    /\ exit_status = "running"
    /\ host = NoHost
    /\ Alone
    /\ entered = 0

\* a single run: the attendance server keeps nothing from one request to the next
Stateless ==
    /\ registered = FALSE
    /\ checkins = 0
    /\ outcomes = <<>>

----------------------------------------------------------------------------
Init ==
    /\ impl \in {"function", "class"}
    /\ \E c \in Credentials : username = c[1] /\ password = c[2] /\ Called(c[1], c[2])
    /\ Stateless
    /\ pc = "LoginStart"
    /\ res = NoResponse
    /\ statuses = <<>>
    /\ execution_value = ""
    /\ relaystate_value = ""
    /\ samlresponse_value = ""
    /\ link_status_href = <<>>
    /\ requests = <<>>
    /\ raised = NoError
    /\ closed = FALSE

----------------------------------------------------------------------------
(* authenticate_on_moodle: the function of __init__.py (impl = "function")
   and the method of MoodleAuthenticatedSession (impl = "class") *)

LoginRequest == Request("GET", LOGIN_URL, "", <<>>)

(* step 1: GET the login page *)
LoginGetAnswered(answers) ==
    /\ pc = "LoginStart"
    /\ \E r \in answers : RoundTrip(LoginRequest, r)
    /\ pc' = "LoginResponse"
    /\ UNCHANGED <<shell, server, calls, impl, username, password,
                   execution_value, relaystate_value,
                   samlresponse_value, link_status_href, raised, closed>>

\* what the login-initiation endpoint may answer
LoginAnswers == { Response(s, c, <<>>, <<>>, <<>>) : s \in Statuses, c \in CookieJars }

LoginGet == LoginGetAnswered(LoginAnswers)

\* mutant: only a server error counts as a failure
LoginFailedServerOnly(r) == r.status >= 500

\* res.status_code != 200
LoginFailed(r) == r.status # 200

LoginPageError(s) == Error("Exception", <<StatusStr(s), " Failed to get login page">>)

\* mutant: a failed login GET is tried again instead of raising
LoginCheckRetry ==
    /\ pc = "LoginResponse"
    /\ pc' = IF res.status # 200 THEN "LoginStart" ELSE "IdpDiscovery"
    /\ UNCHANGED <<shell, server, calls, impl, username, password,
                   res, statuses, execution_value,
                   relaystate_value, samlresponse_value, link_status_href, requests,
                   raised, closed>>

(* if res.status_code != 200: raise *)
LoginCheck ==
    /\ pc = "LoginResponse"
    /\ IF LoginFailed(res)
       THEN Raise(LoginPageError(res.status))
       ELSE pc' = "IdpDiscovery" /\ UNCHANGED raised
    /\ UNCHANGED <<shell, server, calls, impl, username, password,
                   res, statuses, execution_value,
                   relaystate_value, samlresponse_value, link_status_href, requests,
                   closed>>

\* mutant: the cookies of response 1 are not passed on
IdpRequestWithoutCookies(r) == Request("POST", LOGIN_URL, "", << <<"idp", IDP>> >>)

IdpRequest(r) == Request("POST", LOGIN_URL, r.cookies, << <<"idp", IDP>> >>)

(* step 2: POST the IdP choice with the cookies of response 1 *)
IdpPostAnswered(answers) ==
    /\ pc = "IdpDiscovery"
    /\ \E r \in answers : RoundTrip(IdpRequest(res), r)
    /\ pc' = "IdpResponse"
    /\ UNCHANGED <<shell, server, calls, impl, username, password,
                   execution_value, relaystate_value,
                   samlresponse_value, link_status_href, raised, closed>>

\* what may answer the IdP choice, redirects followed
IdpAnswers ==
    { Response(s, "", u, soup, <<>>) :
        s \in Statuses, u \in ResponseUrls, soup \in LoginForms }

IdpPost == IdpPostAnswered(IdpAnswers)

\* mutant: only a server error counts as a failure
IdpFailedServerOnly(r) == r.status >= 500

\* res.status_code != 200
IdpFailed(r) == r.status # 200

IdpError(s) ==
    Error("Exception", <<StatusStr(s), " Failed to authenticate on login page">>)

\* mutant: a failed IdP POST is tried again instead of raising
IdpCheckRetry ==
    /\ pc = "IdpResponse"
    /\ IF IdpFailed(res)
       THEN pc' = "IdpDiscovery" /\ UNCHANGED <<res, execution_value, raised>>
       ELSE LET r == get_hidden_input_value(res.soup, "execution")
            IN  IF r.err # NoError
                THEN Raise(r.err) /\ UNCHANGED <<res, execution_value>>
                ELSE /\ execution_value' = r.value
                     /\ res' = Consumed(res)
                     /\ pc' = "CredentialSubmit"
                     /\ UNCHANGED raised
    /\ UNCHANGED <<shell, server, calls, impl, username, password,
                   statuses, relaystate_value,
                   samlresponse_value, link_status_href, requests, closed>>

(* if res.status_code != 200: raise; parse the form, extract `execution` *)
IdpCheck ==
    /\ pc = "IdpResponse"
    /\ IF IdpFailed(res)
       THEN Raise(IdpError(res.status)) /\ UNCHANGED <<res, execution_value>>
       ELSE LET r == get_hidden_input_value(res.soup, "execution")
            IN  IF r.err # NoError
                THEN Raise(r.err) /\ UNCHANGED <<res, execution_value>>
                ELSE /\ execution_value' = r.value
                     /\ res' = Consumed(res)
                     /\ pc' = "CredentialSubmit"
                     /\ UNCHANGED raised
    /\ UNCHANGED <<shell, server, calls, impl, username, password,
                   statuses, relaystate_value,
                   samlresponse_value, link_status_href, requests, closed>>

CredentialRequest(r, u, p, e) ==
    Request("POST", BeforeQuery(r.url), "",
            << <<"username", u>>,
               <<"password", p>>,
               <<"execution", e>>,
               <<"_eventId", "submit">>,
               <<"geolocation", "">> >>)

(* step 3: POST the credentials to the base URL of response 2 *)
CredentialPostAnswered(answers) ==
    /\ pc = "CredentialSubmit"
    /\ \E r \in answers :
          RoundTrip(CredentialRequest(res, username, password, execution_value), r)
    /\ pc' = "CredentialResponse"
    /\ UNCHANGED <<shell, server, calls, impl, username, password,
                   execution_value, relaystate_value,
                   samlresponse_value, link_status_href, raised, closed>>

\* what the identity provider may answer to the credentials
CredentialAnswers ==
    { Response(s, "", <<>>, soup, <<>>) : s \in Statuses, soup \in SamlPages }

CredentialPost == CredentialPostAnswered(CredentialAnswers)

\* mutant: the method has no try/except around the extraction
SamlExtractionErrorUnwrapped(i, err) == err

\* mutant: the method catches Exception, not only ValueError
SamlExtractionErrorWrapsAll(i, err) ==
    IF i = "class"
    THEN Error("Exception",
               <<"Failed to extract SAML response parameters. Are the credentials correct?">>)
    ELSE err

\* what leaves the authenticator when the extraction of the SAML fields
\* raised err: the method wraps a ValueError (try/except ValueError), the
\* function has no try
SamlExtractionError(i, err) ==
    IF i = "class" /\ err.type = "ValueError"
    THEN Error("Exception",
               <<"Failed to extract SAML response parameters. Are the credentials correct?">>)
    ELSE err

\* mutant: SAMLResponse is looked up before RelayState
SamlExtractSamlFirst ==
    /\ pc = "CredentialResponse"
    /\ LET relay == get_hidden_input_value(res.soup, "RelayState")
           saml == get_hidden_input_value(res.soup, "SAMLResponse")
           err == IF saml.err # NoError THEN saml.err ELSE relay.err
       IN  IF err # NoError
           THEN /\ Raise(SamlExtractionError(impl, err))
                /\ UNCHANGED <<res, relaystate_value, samlresponse_value>>
           ELSE /\ relaystate_value' = relay.value
                /\ samlresponse_value' = saml.value
                /\ res' = Consumed(res)
                /\ pc' = "SamlConsume"
                /\ UNCHANGED raised
    /\ UNCHANGED <<shell, server, calls, impl, username, password,
                   statuses, execution_value,
                   link_status_href, requests, closed>>

(* parse the answer (its status is not looked at), extract RelayState, then
   SAMLResponse *)
SamlExtract ==
    /\ pc = "CredentialResponse"
    /\ LET relay == get_hidden_input_value(res.soup, "RelayState")
           saml == get_hidden_input_value(res.soup, "SAMLResponse")
           err == IF relay.err # NoError THEN relay.err ELSE saml.err
       IN  IF err # NoError
           THEN /\ Raise(SamlExtractionError(impl, err))
                /\ UNCHANGED <<res, relaystate_value, samlresponse_value>>
           ELSE /\ relaystate_value' = relay.value
                /\ samlresponse_value' = saml.value
                /\ res' = Consumed(res)
                /\ pc' = "SamlConsume"
                /\ UNCHANGED raised
    /\ UNCHANGED <<shell, server, calls, impl, username, password,
                   statuses, execution_value,
                   link_status_href, requests, closed>>

\* mutant: the SAML POST repeats the username
SamlRequestWithUsername(relay, saml) ==
    Request("POST", SAML_URL, "",
            << <<"RelayState", relay>>, <<"SAMLResponse", saml>>,
               <<"username", username>> >>)

SamlRequest(relay, saml) ==
    Request("POST", SAML_URL, "", << <<"RelayState", relay>>, <<"SAMLResponse", saml>> >>)

(* step 4: POST the SAML fields to the service provider *)
SamlPostAnswered(answers) ==
    /\ pc = "SamlConsume"
    /\ \E r \in answers :
          RoundTrip(SamlRequest(relaystate_value, samlresponse_value), r)
    /\ pc' = "SamlResponse"
    /\ UNCHANGED <<shell, server, calls, impl, username, password,
                   execution_value, relaystate_value,
                   samlresponse_value, link_status_href, raised, closed>>

\* what the SAML consumer endpoint may answer
SamlAnswers == { Response(s, "", <<>>, <<>>, <<>>) : s \in Statuses }

SamlPost == SamlPostAnswered(SamlAnswers)

(* the answer of step 4 is not looked at: log completion and return *)
AuthReturn ==
    /\ pc = "SamlResponse"
    /\ pc' = "Authenticated"
    /\ UNCHANGED <<shell, server, calls, impl, username, password,
                   res, statuses, execution_value,
                   relaystate_value, samlresponse_value, link_status_href, requests,
                   raised, closed>>

----------------------------------------------------------------------------
(* register_presence_status, called by main with the session that
   authenticate_on_moodle returned from *)

\* mutant: the first tag of that name, whatever its string
MatchingAnyString(soup, tag, s) ==
    { i \in 1..Len(soup) : soup[i].tag = tag }

\* soup.find(tag, string=s): the tags that match, by index
MatchingString(soup, tag, s) ==
    { i \in 1..Len(soup) : soup[i].tag = tag /\ soup[i].string = s }

\* needle in text
Contains(text, needle) ==
    \E i \in 0..(Len(text) - Len(needle)) :
        \A j \in 1..Len(needle) : text[i + j] = needle[j]

AttendanceRequest == Request("GET", ATTENDANCE_URL, "", <<>>)

(* main calls register_presence_status(session), which GETs the
   attendance page *)
AttendanceGet ==
    /\ pc = "Authenticated"
    /\ impl = "function"
    /\ \E s \in Statuses, soup \in AttendancePages :
          RoundTrip(AttendanceRequest, Response(s, "", <<>>, soup, <<>>))
    /\ calls' = Append(calls, Call("register_presence_status", sessions, "", ""))
    /\ pc' = "AttendanceResponse"
    /\ UNCHANGED <<shell, server, impl, username, password,
                   execution_value, relaystate_value,
                   samlresponse_value, link_status_href, raised, closed>>

LinkNotFoundError ==
    Error("Exception",
          <<"Could not find the send status cell. Did you already checked in?">>)

(* parse the page, look for the presence link, read its href *)
FindLink ==
    /\ pc = "AttendanceResponse"
    /\ LET found == MatchingString(res.soup, "a", PRESENCE_LABEL)
       IN  IF found = {}
           THEN Raise(LinkNotFoundError) /\ UNCHANGED <<res, link_status_href>>
           ELSE LET a_element == res.soup[Min(found)]
                IN  IF "href" \in DOMAIN a_element.attrs
                    THEN /\ link_status_href' = a_element.attrs.href
                         /\ res' = Consumed(res)
                         /\ pc' = "CheckIn"
                         /\ UNCHANGED raised
                    ELSE /\ Raise(Error("KeyError", <<"href">>))
                         /\ UNCHANGED <<res, link_status_href>>
    /\ UNCHANGED <<shell, server, calls, impl, username, password,
                   statuses, execution_value,
                   relaystate_value, samlresponse_value, requests, closed>>

CheckInRequest(href) == Request("GET", href, "", <<>>)

(* GET the presence link *)
CheckInGet ==
    /\ pc = "CheckIn"
    /\ \E s \in Statuses, text \in Texts :
          RoundTrip(CheckInRequest(link_status_href), Response(s, "", <<>>, <<>>, text))
    /\ pc' = "CheckInResponse"
    /\ UNCHANGED <<shell, server, calls, impl, username, password,
                   execution_value, relaystate_value,
                   samlresponse_value, link_status_href, raised, closed>>

RegistrationError == Error("Exception", <<"Failed to register presence status.">>)

\* mutant: the status is looked at instead of the text
ConfirmedByStatus(r) == r.status = 200

\* mutant: a confirmation counts only in an answer with status 200
ConfirmedWhenOk(r) == r.status = 200 /\ Contains(r.text, CONFIRMATION)

\* the answer confirms the registration
Confirmed(r) == Contains(r.text, CONFIRMATION)

\* mutant: an unconfirmed check-in is sent again instead of raising
ConfirmRetry ==
    /\ pc = "CheckInResponse"
    /\ pc' = IF ~Confirmed(res) THEN "CheckIn" ELSE "Registered"
    /\ UNCHANGED <<shell, server, calls, impl, username, password,
                   res, statuses, execution_value,
                   relaystate_value, samlresponse_value, link_status_href, requests,
                   raised, closed>>

(* look for the confirmation in the answer, return *)
Confirm ==
    /\ pc = "CheckInResponse"
    /\ IF ~Confirmed(res)
       THEN Raise(RegistrationError)
       ELSE pc' = "Registered" /\ UNCHANGED raised
    /\ UNCHANGED <<shell, server, calls, impl, username, password,
                   res, statuses, execution_value,
                   relaystate_value, samlresponse_value, link_status_href, requests,
                   closed>>

----------------------------------------------------------------------------
(* main, after register_presence_status returned: session.close() *)
SessionClose ==
    /\ pc = "Registered"
    /\ closed' = TRUE
    /\ pc' = "Done"
    /\ UNCHANGED <<shell, server, calls, impl, username, password,
                   res, statuses, execution_value,
                   relaystate_value, samlresponse_value, link_status_href, requests,
                   raised>>

(* MoodleAuthenticatedSession.__enter__, after authenticate_on_moodle
   returned: return self *)
Enter ==
    /\ pc = "Authenticated"
    /\ impl = "class"
    /\ entered' = sessions
    /\ pc' = "Entered"
    /\ UNCHANGED <<argv, environ, consulted, args, sessions, message, notified,
                   exit_status, host, peers>>
    /\ UNCHANGED <<server, calls, impl, username, password,
                   res, statuses, execution_value,
                   relaystate_value, samlresponse_value, link_status_href, requests,
                   raised, closed>>

\* mutant: the session is closed only when the block raised nothing
ExitUnlessRaised ==
    /\ pc \in {"Entered", "Leaving"}
    /\ closed' = (raised = NoError)
    /\ pc' = "Done"
    /\ UNCHANGED <<shell, server, calls, impl, username, password,
                   res, statuses, execution_value,
                   relaystate_value, samlresponse_value, link_status_href, requests,
                   raised>>

(* MoodleAuthenticatedSession.__exit__: self.close(), whatever the
   exception information; returning None, it lets the exception through *)
Exit ==
    /\ pc \in {"Entered", "Leaving"}
    /\ closed' = TRUE
    /\ pc' = "Done"
    /\ UNCHANGED <<shell, server, calls, impl, username, password,
                   res, statuses, execution_value,
                   relaystate_value, samlresponse_value, link_status_href, requests,
                   raised>>

Next ==
    \/ LoginGet
    \/ LoginCheck
    \/ IdpPost
    \/ IdpCheck
    \/ CredentialPost
    \/ SamlExtract
    \/ SamlPost
    \/ AuthReturn
    \/ AttendanceGet
    \/ FindLink
    \/ CheckInGet
    \/ Confirm
    \/ SessionClose
    \/ Enter
    \/ Exit

Spec == Init /\ [][Next]_vars

----------------------------------------------------------------------------
(* Vocabulary of the properties *)

\* tag t is <input type="hidden" name=n ...>
IsHidden(t, n) ==
    /\ t.tag = "input"
    /\ "type" \in DOMAIN t.attrs /\ t.attrs.type = "hidden"
    /\ "name" \in DOMAIN t.attrs /\ t.attrs.name = n

\* the document has a hidden input named n
HasHidden(soup, n) == \E i \in DOMAIN soup : IsHidden(soup[i], n)

\* the first hidden input named n of a document that has one
FirstHidden(soup, n) ==
    soup[CHOOSE i \in DOMAIN soup :
            IsHidden(soup[i], n) /\ \A j \in 1..(i - 1) : ~IsHidden(soup[j], n)]

\* the document has a hidden input named n, and the first one carries a value
Carries(soup, n) == HasHidden(soup, n) /\ "value" \in DOMAIN FirstHidden(soup, n).attrs

\* authenticate_on_moodle has returned normally to its caller
AuthReturned ==
    \/ pc \in {"Authenticated", "AttendanceResponse", "CheckIn", "CheckInResponse",
               "Registered", "Entered", "Done"}
    \/ pc = "Raised" /\ Len(requests) > 4

\* the run is at its k-th response or beyond
Answered(k) == Len(statuses) >= k

----------------------------------------------------------------------------
(* C1: the authenticator returns normally only if each of the four
   requests of the handshake was answered 200 (and the three hidden fields
   were there: a run that returned has extracted them, IdpCheck and
   SamlExtract raise otherwise).  The status half is what fails: the status
   of the credential POST and of the SAML POST is never looked at. *)
C1_ReturnsOnlyAfterFourOk ==
    AuthReturned =>
        /\ Len(requests) >= 4
        /\ \A k \in 1..4 : statuses[k] = 200

(* C2: the authenticator returns normally only if the POST to the SAML
   consumer endpoint was answered 200. *)
C2_ReturnsOnlyAfterSamlOk ==
    AuthReturned => statuses[4] = 200

(* C3: when the login GET is answered 200, the IdP POST 200 with an
   execution field, the credential POST with RelayState and SAMLResponse,
   the authenticator issues GET login, POST login with the cookies of
   response 1 and the idp discriminator, POST of the credentials with the
   execution value of response 2, POST of the RelayState and SAMLResponse
   values of response 3 to the SAML endpoint, in this order and nothing
   else, and returns. *)
C3_Sequence ==
    /\ [][ /\ (pc = "LoginResponse" /\ res.status = 200)
                => pc' = "IdpDiscovery"
           /\ pc = "IdpDiscovery"
                => requests' = <<requests[1],
                                 [method |-> "POST", url |-> LOGIN_URL,
                                  cookies |-> res.cookies,
                                  data |-> << <<"idp", IDP>> >>]>>
           /\ (pc = "IdpResponse" /\ res.status = 200 /\ Carries(res.soup, "execution"))
                => /\ pc' = "CredentialSubmit"
                   /\ execution_value' = FirstHidden(res.soup, "execution").attrs.value
           /\ pc = "CredentialSubmit"
                => /\ Len(requests') = 3
                   /\ requests'[3].method = "POST"
                   /\ requests'[3].data = << <<"username", username>>,
                                            <<"password", password>>,
                                            <<"execution", execution_value>>,
                                            <<"_eventId", "submit">>,
                                            <<"geolocation", "">> >>
           /\ (/\ pc = "CredentialResponse"
               /\ Carries(res.soup, "RelayState")
               /\ Carries(res.soup, "SAMLResponse"))
                => /\ pc' = "SamlConsume"
                   /\ relaystate_value' = FirstHidden(res.soup, "RelayState").attrs.value
                   /\ samlresponse_value' =
                          FirstHidden(res.soup, "SAMLResponse").attrs.value
           /\ pc = "SamlConsume"
                => requests' = <<requests[1], requests[2], requests[3],
                                 [method |-> "POST", url |-> SAML_URL, cookies |-> "",
                                  data |-> << <<"RelayState", relaystate_value>>,
                                              <<"SAMLResponse", samlresponse_value>> >>]>>
           /\ pc = "SamlResponse"
                => pc' = "Authenticated" /\ raised' = NoError
         ]_vars
    /\ [](pc = "Authenticated" =>
            /\ Len(requests) = 4
            /\ requests[1] = [method |-> "GET", url |-> LOGIN_URL, cookies |-> "",
                               data |-> <<>>]
            /\ \A k \in 2..4 : requests[k].method = "POST")

\* the handshake has completed on four 200 answers
C3_Witness ==
    /\ pc = "Authenticated"
    /\ statuses = <<200, 200, 200, 200>>
    /\ requests[2].cookies = "cookie-B"
    /\ requests[3].data[3] = <<"execution", "v2">>
    /\ requests[4].data = << <<"RelayState", "v1">>, <<"SAMLResponse", "v2">> >>

(* C4: when the login GET is answered by a status s other than 200, the
   authenticator raises "<s> Failed to get login page" and no request
   follows the GET. *)
C4_LoginPageUnavailable ==
    (Answered(1) /\ statuses[1] # 200) =>
        /\ requests = <<[method |-> "GET", url |-> LOGIN_URL, cookies |-> "",
                         data |-> <<>>]>>
        /\ \/ pc = "LoginResponse"
           \/ /\ pc = "Raised"
              /\ raised.type = "Exception"
              /\ statuses[1] = 404 => raised.msg = <<"404", " Failed to get login page">>
              /\ statuses[1] = 500 => raised.msg = <<"500", " Failed to get login page">>

C4_Witness ==
    /\ pc = "Raised"
    /\ statuses = <<404>>
    /\ raised.msg = <<"404", " Failed to get login page">>

(* C5: when the IdP-discovery POST is answered by a status s other than
   200, the authenticator raises "<s> Failed to authenticate on login page"
   and neither the credential POST nor the SAML POST is issued. *)
C5_IdpRedirectFailed ==
    (Answered(2) /\ statuses[2] # 200) =>
        /\ Len(requests) = 2
        /\ \/ pc = "IdpResponse"
           \/ /\ pc = "Raised"
              /\ raised.type = "Exception"
              /\ statuses[2] = 404 =>
                    raised.msg = <<"404", " Failed to authenticate on login page">>
              /\ statuses[2] = 500 =>
                    raised.msg = <<"500", " Failed to authenticate on login page">>

C5_Witness ==
    /\ pc = "Raised"
    /\ statuses = <<200, 500>>
    /\ raised.msg = <<"500", " Failed to authenticate on login page">>

----------------------------------------------------------------------------
\* the wrapped error of MoodleAuthenticatedSession.authenticate_on_moodle
SamlAssertionMissing ==
    [type |-> "Exception",
     msg |-> <<"Failed to extract SAML response parameters. Are the credentials correct?">>]

\* the extractor's error for field n
FieldNotFound(n) == [type |-> "ValueError", msg |-> <<"Element ", n, " introuvable">>]

\* the run has failed on the answer to the credential POST
FailedOnSamlPage == pc = "Raised" /\ Len(requests) = 3

(* C6 as stated: in both implementations, a credential-submission response
   that lacks RelayState or lacks SAMLResponse makes the run fail with the
   SamlAssertionMissing error (credentials likely incorrect).  The field
   that is there is taken to carry its value. *)
C6_Original ==
    (/\ FailedOnSamlPage
     /\ \/ ~HasHidden(res.soup, "RelayState")
        \/ Carries(res.soup, "RelayState") /\ ~HasHidden(res.soup, "SAMLResponse"))
        => raised = SamlAssertionMissing

(* C6 amended: only the method of MoodleAuthenticatedSession fails with
   SamlAssertionMissing, when the response has no RelayState field, or has a
   RelayState field that carries a value and no SAMLResponse field; the
   function of __init__.py fails in these cases with the extractor's
   ValueError naming the first missing field. *)
C6_Amended ==
    [][ (/\ pc = "CredentialResponse"
         /\ \/ ~HasHidden(res.soup, "RelayState")
            \/ Carries(res.soup, "RelayState") /\ ~HasHidden(res.soup, "SAMLResponse"))
        => /\ pc' = "Raised"
           /\ requests' = requests
           /\ impl = "class" => raised' = SamlAssertionMissing
           /\ impl = "function" =>
                raised' = IF ~HasHidden(res.soup, "RelayState")
                          THEN FieldNotFound("RelayState")
                          ELSE FieldNotFound("SAMLResponse")
      ]_vars

\* the method has failed on a page that has RelayState and no SAMLResponse
C6_Witness ==
    /\ FailedOnSamlPage
    /\ impl = "class"
    /\ Carries(res.soup, "RelayState")
    /\ ~HasHidden(res.soup, "SAMLResponse")
    /\ raised = SamlAssertionMissing

(* C7: in the function of __init__.py a missing hidden field surfaces as
   the extractor's ValueError naming it: "Element execution introuvable"
   when the answer to the IdP POST has no execution field, "Element
   RelayState introuvable" when the answer to the credential POST has no
   RelayState field, SAMLResponse present or not; no request follows. *)
C7_FunctionSurfacesValueError ==
    [][ /\ (/\ impl = "function"
            /\ pc = "IdpResponse"
            /\ res.status = 200
            /\ ~HasHidden(res.soup, "execution"))
           => /\ pc' = "Raised"
              /\ raised' = [type |-> "ValueError",
                            msg |-> <<"Element ", "execution", " introuvable">>]
        /\ (/\ impl = "function"
            /\ pc = "CredentialResponse"
            /\ ~HasHidden(res.soup, "RelayState"))
           => /\ pc' = "Raised"
              /\ raised' = [type |-> "ValueError",
                            msg |-> <<"Element ", "RelayState", " introuvable">>]
        /\ pc = "Raised" => requests' = requests
      ]_vars
    /\ [](pc = "Raised" /\ raised.type = "ValueError" => Len(requests) \in {2, 3})

\* the function has failed on a page that has SAMLResponse and no RelayState
C7_Witness ==
    /\ FailedOnSamlPage
    /\ impl = "function"
    /\ HasHidden(res.soup, "SAMLResponse")
    /\ raised = FieldNotFound("RelayState")

----------------------------------------------------------------------------
\* the state of the authenticator's machine the run is in: 1 LoginStart,
\* 2 IdpDiscovery, 3 CredentialSubmit, 4 SamlConsume, 5 Authenticated
Stage(p) ==
    CASE p \in {"LoginStart", "LoginResponse"} -> 1
      [] p \in {"IdpDiscovery", "IdpResponse"} -> 2
      [] p \in {"CredentialSubmit", "CredentialResponse"} -> 3
      [] p \in {"SamlConsume", "SamlResponse"} -> 4
      [] OTHER -> 5

\* the requests of the log that are the k-th request of the handshake
HandshakeRequests(k) ==
    { i \in DOMAIN requests :
        CASE k = 1 -> requests[i].method = "GET" /\ requests[i].url = LOGIN_URL
          [] k = 2 -> requests[i].method = "POST" /\ requests[i].url = LOGIN_URL
          [] k = 3 -> /\ requests[i].method = "POST"
                      /\ requests[i].data # <<>>
                      /\ requests[i].data[1][1] = "username"
          [] OTHER -> requests[i].method = "POST" /\ requests[i].url = SAML_URL }

(* C8: the authenticator moves LoginStart -> IdpDiscovery ->
   CredentialSubmit -> SamlConsume -> Authenticated, never backwards and never
   twice through a state: a failed guard ends the run, each of the four
   requests is issued at most once, none after a failure. *)
C8_StateMachine ==
    /\ [][ /\ pc' = "Raised" \/ Stage(pc') \in {Stage(pc), Stage(pc) + 1}
           /\ pc = "Raised" => pc' = "Raised" /\ requests' = requests
           /\ Len(requests') > Len(requests) => pc' # "Raised"
         ]_vars
    /\ [](\A k \in 1..4 : Cardinality(HandshakeRequests(k)) <= 1)
    /\ [](Stage(pc) < 5 => Len(requests) = (IF pc \in {"LoginStart", "IdpDiscovery",
                                                        "CredentialSubmit", "SamlConsume"}
                                           THEN Stage(pc) - 1 ELSE Stage(pc)))

\* a guard of the third state has failed
C8_Witness ==
    /\ FailedOnSamlPage
    /\ \A k \in 1..3 : Cardinality(HandshakeRequests(k)) = 1
    /\ HandshakeRequests(4) = {}

----------------------------------------------------------------------------
\* the page has an anchor whose string is exactly the label
HasPresenceLink(soup) ==
    \E i \in DOMAIN soup : soup[i].tag = "a" /\ soup[i].string = PRESENCE_LABEL

\* the check-in requests of the log: the GETs that go neither to the login
\* page nor to the attendance page
CheckInRequests ==
    { i \in DOMAIN requests :
        /\ requests[i].method = "GET"
        /\ requests[i].url \notin {LOGIN_URL, ATTENDANCE_URL} }

(* C9: register_presence_status ends in exactly one of three outcomes:
   it returns when the page has the presence anchor and the answer to the
   GET of its href holds the confirmation, it raises "Failed to register
   presence status." when the anchor is there and the confirmation is not,
   it raises "Could not find the send status cell..." when the anchor is not
   there. *)
C9_ThreeOutcomes ==
    /\ (pc = "Raised" /\ Len(requests) = 5) =>
          /\ ~HasPresenceLink(res.soup)
          /\ raised = [type |-> "Exception",
                       msg |-> <<"Could not find the send status cell. Did you already checked in?">>]
    /\ (pc = "Raised" /\ Len(requests) = 6) =>
          /\ ~Contains(res.text, CONFIRMATION)
          /\ raised = [type |-> "Exception",
                       msg |-> <<"Failed to register presence status.">>]
    /\ pc = "Registered" => Contains(res.text, CONFIRMATION) /\ raised = NoError

(* C10: the check-in request is issued at most once in a run: it is not
   repeated after a rejection, and it is not issued when the attendance page
   has no presence anchor. *)
C10_CheckInAtMostOnce ==
    /\ [](Cardinality(CheckInRequests) <= 1)
    /\ [][ /\ (pc = "AttendanceResponse" /\ ~HasPresenceLink(res.soup))
              => pc' = "Raised" /\ requests' = requests
           /\ pc = "CheckInResponse" => requests' = requests /\ pc' \in {"Raised", "Registered"}
           /\ (pc \in {"Raised", "Registered", "Done"}) => requests' = requests
         ]_vars
    /\ [](pc = "Raised" /\ Len(requests) = 5 => CheckInRequests = {})

\* the check-in has been rejected
C10_Witness ==
    /\ pc = "Raised"
    /\ Cardinality(CheckInRequests) = 1
    /\ raised.msg = <<"Failed to register presence status.">>

----------------------------------------------------------------------------
(* Consecutive runs of register_presence_status against an attendance
   server that shows the presence link until a check-in is registered.
   Every run has its own authenticated session; what the server has
   registered is all that passes from one run to the next. *)

MaxRuns == 2        \* runs in a row

\* the pages the server shows: the link is there as long as nothing is registered
ServedPages == { p \in AttendancePages : HasPresenceLink(p) <=> ~registered }

(* main calls register_presence_status(session), which GETs the
   attendance page from that server *)
ServedAttendanceGet ==
    /\ pc = "Authenticated"
    /\ \E s \in Statuses, soup \in ServedPages :
          RoundTrip(AttendanceRequest, Response(s, "", <<>>, soup, <<>>))
    /\ calls' = Append(calls, Call("register_presence_status", sessions, "", ""))
    /\ pc' = "AttendanceResponse"
    /\ UNCHANGED <<shell, server, impl, username, password, execution_value,
                   relaystate_value, samlresponse_value, link_status_href, raised, closed>>

(* GET the presence link: the server receives a check-in; it registers it or
   not, and it confirms only a check-in it has registered *)
ServedCheckInGet ==
    /\ pc = "CheckIn"
    /\ \E s \in Statuses, text \in Texts, accepted \in BOOLEAN :
          /\ Contains(text, CONFIRMATION) => accepted
          /\ RoundTrip(CheckInRequest(link_status_href),
                       Response(s, "", <<>>, <<>>, text))
          /\ registered' = (registered \/ accepted)
    /\ checkins' = checkins + 1
    /\ pc' = "CheckInResponse"
    /\ UNCHANGED <<shell, calls, outcomes, impl, username, password, execution_value,
                   relaystate_value, samlresponse_value, link_status_href, raised, closed>>

\* how a run that is over ended
Outcome ==
    CASE pc = "Done" -> "Success"
      [] pc = "Raised" /\ raised = LinkNotFoundError -> "AlreadyCheckedIn"
      [] pc = "Raised" /\ raised = RegistrationError -> "Rejected"
      [] OTHER -> raised.type

(* the run is over; the next one starts with a session of its own *)
NextRun ==
    /\ pc \in {"Done", "Raised"}
    /\ Len(outcomes) < MaxRuns
    /\ outcomes' = Append(outcomes, Outcome)
    /\ pc' = IF Len(outcomes') < MaxRuns THEN "Authenticated" ELSE "Over"
    /\ res' = NoResponse
    /\ statuses' = <<>>
    /\ link_status_href' = <<>>
    /\ requests' = <<>>
    /\ raised' = NoError
    /\ closed' = FALSE
    /\ calls' = <<calls[1]>>
    /\ UNCHANGED <<shell, registered, checkins, impl, username, password,
                   execution_value, relaystate_value, samlresponse_value>>

InitRuns ==
    /\ impl = "function"
    /\ \E c \in Credentials : username = c[1] /\ password = c[2] /\ Called(c[1], c[2])
    /\ registered \in BOOLEAN
    /\ checkins = 0
    /\ outcomes = <<>>
    /\ pc = "Authenticated"
    /\ res = NoResponse
    /\ statuses = <<>>
    /\ execution_value = ""
    /\ relaystate_value = ""
    /\ samlresponse_value = ""
    /\ link_status_href = <<>>
    /\ requests = <<>>
    /\ raised = NoError
    /\ closed = FALSE

NextRuns ==
    \/ ServedAttendanceGet
    \/ FindLink
    \/ ServedCheckInGet
    \/ Confirm
    \/ SessionClose
    \/ NextRun

SpecRuns == InitRuns /\ [][NextRuns]_vars

\* C11: of runs in a row against a server that shows the presence link until
\* a check-in is registered, when the first ends in Success every later one
\* ends in AlreadyCheckedIn without sending a check-in request, and the
\* server receives the check-in exactly once
C11_SecondRunAlreadyCheckedIn ==
    (Len(outcomes) >= 1 /\ outcomes[1] = "Success")
        => /\ checkins = 1
           /\ CheckInRequests = {}
           /\ \A k \in 2..Len(outcomes) : outcomes[k] = "AlreadyCheckedIn"

\* the second run has ended after a first run that succeeded
C11_Witness ==
    /\ Len(outcomes) = 2
    /\ outcomes[1] = "Success"
    /\ outcomes[2] = "AlreadyCheckedIn"
    /\ checkins = 1

----------------------------------------------------------------------------
(* The notifiers.  What a notifier finds on its machine is a host: the
   platform, the optional modules that could be imported, what the
   delivery attempt does ("ok", or the exception it raises), what the
   AppleScript attempt does and what the webhook POST does. *)

Systems == {"Windows", "Darwin", "Linux", "Java"}
Exceptions == {"ImportError", "SubprocessError", "FileNotFoundError", "RuntimeError"}
PostExceptions == {"ConnectionError", "MissingSchema"}

Notifiers ==
    {"desktop_notifications.send_notification", "discord.send_discord_notification",
     "notifications.send_notification"}

Hosts ==
    [notifier : Notifiers, system : Systems, windows_notification : BOOLEAN,
     macos_notification : BOOLEAN, delivery : {"ok"} \cup Exceptions,
     applescript : {"ok"} \cup Exceptions, post : {"ok"} \cup PostExceptions]

\* how a call ends: it returns a value or it raises
Returns(v) == [raises |-> "None", returns |-> v]
Raises(e) == [raises |-> e, returns |-> "None"]

\* desktop_notifications._send_windows_notification
send_windows_notification(h) ==
    CASE h.delivery = "ok" -> Returns("True")
      [] h.delivery = "ImportError" -> Returns("False")
      [] OTHER -> Raises(h.delivery)

\* desktop_notifications._send_macos_notification
send_macos_notification(h) ==
    CASE h.delivery = "ok" -> Returns("True")
      [] h.delivery = "ImportError" ->
            CASE h.applescript = "ok" -> Returns("True")
              [] h.applescript \in {"SubprocessError", "FileNotFoundError"} ->
                    Returns("False")
              [] OTHER -> Raises(h.applescript)
      [] OTHER -> Raises(h.delivery)

\* desktop_notifications._send_linux_notification
send_linux_notification(h) ==
    CASE h.delivery = "ok" -> Returns("True")
      [] h.delivery \in {"SubprocessError", "FileNotFoundError"} -> Returns("False")
      [] OTHER -> Raises(h.delivery)

\* desktop_notifications.send_notification: the branch the platform selects
desktop_dispatch(h) ==
    CASE h.system = "Windows" /\ h.windows_notification -> send_windows_notification(h)
      [] h.system = "Darwin" /\ h.macos_notification -> send_macos_notification(h)
      [] h.system = "Linux" -> send_linux_notification(h)
      [] OTHER -> Returns("False")

\* desktop_notifications.send_notification: the delivery tools the call
\* runs, in order; osascript is run only in the handler of an ImportError
\* raised by pync.notify
desktop_tools(h) ==
    CASE h.system = "Windows" /\ h.windows_notification -> <<"win10toast">>
      [] h.system = "Darwin" /\ h.macos_notification ->
            IF h.delivery = "ImportError" THEN <<"pync", "osascript">> ELSE <<"pync">>
      [] h.system = "Linux" -> <<"notify-send">>
      [] OTHER -> <<>>

\* desktop_notifications.send_notification: try ... except Exception: return False
desktop_send_notification(h) ==
    IF desktop_dispatch(h).raises # "None" THEN Returns("False") ELSE desktop_dispatch(h)

\* mutant: the POST of the webhook is not guarded
send_discord_notification_unguarded(h) ==
    IF h.post = "ok" THEN Returns("None") ELSE Raises(h.post)

\* discord.send_discord_notification: try rq.post ... except Exception: log
send_discord_notification(h) ==
    CASE h.post = "ok" -> Returns("None")
      [] OTHER -> Returns("None")

\* notifications.linux / macos / windows .send_notification, and the stand-in
\* defined for any other platform
send_sys_notification(h) ==
    CASE h.system = "Linux" ->
            CASE h.delivery = "ok" -> Returns("None")
              [] h.delivery = "FileNotFoundError" -> Raises("ImportError")
              [] OTHER -> Raises(h.delivery)
      [] h.system \in {"Windows", "Darwin"} ->
            IF h.delivery = "ok" THEN Returns("None") ELSE Raises(h.delivery)
      [] OTHER -> Raises("ImportError")

\* notifications.send_notification: the webhook first, then
\* try send_sys_notification ... except: log, raise
package_send_notification(h) == send_sys_notification(h)

\* one notification handed to a notifier: the channel, the text, the webhook
\* it goes to, and how the call ended
Notification(channel, text, to, end) ==
    [channel |-> channel, message |-> text, to |-> to, end |-> end]

\* every way the desktop notifier of __main__ can end, over all hosts
DesktopEnds == { desktop_send_notification(h) : h \in Hosts }

\* every way the webhook notifier of __main__ can end, over all hosts
DiscordEnds == { send_discord_notification(h) : h \in Hosts }

----------------------------------------------------------------------------
(* The invocation shell: parse_args, main and __main__ *)

MissingCredentials ==
    Error("NameError",
          <<"Missing Moodle credentials. Provide them via command line arguments or environment variables.">>)

SUCCESS == <<"Sent presence status!">>

\* mutant: the environment variable is preferred to the flag
ResolveEnvFirst(flag, variable) == Or(Or(variable, flag), "")

\* args.<field> or os.getenv(<NAME>) or ""
Resolve(flag, variable) == Or(Or(flag, variable), "")

\* `or` evaluates os.getenv only when the flag is falsy
Consulted(flags) == { EnvName(f) : f \in { g \in Fields : ~Truthy(flags[g]) } }

\* mutant: only a run with neither credential is refused
MissingBoth(u, p) == u = "" /\ p = ""

\* not moodle_username or not moodle_password
Missing(u, p) == u = "" \/ p = ""

\* str(e): a KeyError shows the repr of its key, any other error its message
Str(err) == IF err.type = "KeyError" THEN <<"'">> \o err.msg \o <<"'">> ELSE err.msg

\* the locals of main and of its callees
frames == <<res, execution_value, relaystate_value, samlresponse_value,
            link_status_href>>

\* the frames of main and of its callees are gone
Unwound ==
    /\ res' = NoResponse
    /\ execution_value' = ""
    /\ relaystate_value' = ""
    /\ samlresponse_value' = ""
    /\ link_status_href' = <<>>

(* __main__: args = parse_args().  A NameError raised here is outside the
   try of __main__: it ends the process *)
ParseArgs ==
    /\ pc = "Start"
    /\ consulted' = Consulted(argv)
    /\ LET moodle_username == Resolve(argv.username, environ.username)
           moodle_password == Resolve(argv.password, environ.password)
           discord_webhook == Resolve(argv.discord_webhook, environ.discord_webhook)
       IN  IF Missing(moodle_username, moodle_password)
           THEN /\ raised' = MissingCredentials
                /\ pc' = "Exited"
                /\ exit_status' = "1"
                /\ UNCHANGED args
           ELSE /\ args' = Args(moodle_username, moodle_password, discord_webhook)
                /\ pc' = "Main"
                /\ UNCHANGED <<raised, exit_status>>
    /\ UNCHANGED <<server, calls, impl, username, password, frames, statuses, requests,
                   closed, argv, environ, sessions, message, notified, host,
                   peers, entered>>

(* main(args): args is given; session = rq.Session() *)
CreateSession ==
    /\ pc = "Main"
    /\ sessions' = sessions + 1
    /\ calls' = Append(calls, Call("Session", sessions + 1, "", ""))
    /\ pc' = "SessionCreated"
    /\ UNCHANGED <<server, impl, username, password, frames, statuses, requests, raised,
                   closed, argv, environ, consulted, args, message, notified,
                   exit_status, host,
                   peers, entered>>

\* mutant: the credentials are passed in the wrong order
CallAuthenticateSwapped ==
    /\ pc = "SessionCreated"
    /\ username' = args.password
    /\ password' = args.username
    /\ calls' = Append(calls, Call("authenticate_on_moodle", sessions, args.password,
                                   args.username))
    /\ pc' = "LoginStart"
    /\ UNCHANGED <<shell, server, impl, frames, statuses, requests, raised, closed>>

(* main: authenticate_on_moodle(session, args.username, args.password) *)
CallAuthenticate ==
    /\ pc = "SessionCreated"
    /\ username' = args.username
    /\ password' = args.password
    /\ calls' = Append(calls, Call("authenticate_on_moodle", sessions, args.username,
                                   args.password))
    /\ pc' = "LoginStart"
    /\ UNCHANGED <<shell, server, impl, frames, statuses, requests, raised, closed>>

\* mutant: main replaces the error by one of its own
LeavesMainReplaced(err) == Error("Exception", <<"Failed to register presence">>)

\* main has no handler: the error leaves main as it was raised
LeavesMain(err) == err

(* an exception raised inside authenticate_on_moodle or
   register_presence_status unwinds main *)
MainUnwind ==
    /\ pc = "Raised"
    /\ raised' = LeavesMain(raised)
    /\ Unwound
    /\ pc' = "MainRaised"
    /\ UNCHANGED <<shell, server, calls, impl, username, password, statuses, requests,
                   closed>>

(* __main__: main(args) returned; message = "Sent presence status!" *)
Succeed ==
    /\ pc = "Done"
    /\ message' = SUCCESS
    /\ Unwound
    /\ pc' = "Notify"
    /\ UNCHANGED <<server, calls, impl, username, password, statuses, requests, raised,
                   closed, argv, environ, consulted, args, sessions, notified,
                   exit_status, host,
                   peers, entered>>

\* mutant: the shell reports a fixed text instead of the error's
CatchGeneric ==
    /\ pc = "MainRaised"
    /\ message' = <<"Error occurred">>
    /\ pc' = "Notify"
    /\ UNCHANGED <<server, calls, impl, username, password, frames, statuses, requests,
                   raised, closed, argv, environ, consulted, args, sessions, notified,
                   exit_status, host,
                   peers, entered>>

(* __main__: except Exception as e: message = str(e) *)
Catch ==
    /\ pc = "MainRaised"
    /\ message' = Str(raised)
    /\ pc' = "Notify"
    /\ UNCHANGED <<server, calls, impl, username, password, frames, statuses, requests,
                   raised, closed, argv, environ, consulted, args, sessions, notified,
                   exit_status, host,
                   peers, entered>>

(* __main__: if args.discord_webhook: send_discord_notification(message, ...),
   which ends in one of `ends` *)
NotifyDiscordEnding(ends) ==
    /\ pc = "Notify"
    /\ IF Truthy(args.discord_webhook)
       THEN \E end \in ends :
               /\ notified' = Append(notified, Notification("discord", message,
                                                            args.discord_webhook, end))
               /\ IF end.raises = "None"
                  THEN pc' = "NotifyDesktop" /\ UNCHANGED exit_status
                  ELSE pc' = "Exited" /\ exit_status' = "1"
       ELSE pc' = "NotifyDesktop" /\ UNCHANGED <<notified, exit_status>>
    /\ UNCHANGED <<server, calls, impl, username, password, frames, statuses, requests,
                   raised, closed, argv, environ, consulted, args, sessions, message,
                   host, peers, entered>>

NotifyDiscord == NotifyDiscordEnding(DiscordEnds)

(* __main__: send_notification(message), which ends in one of `ends`; then
   the module ends *)
NotifyDesktopEnding(ends) ==
    /\ pc = "NotifyDesktop"
    /\ \E end \in ends :
          /\ notified' = Append(notified, Notification("desktop", message, "", end))
          /\ exit_status' = IF end.raises = "None" THEN "0" ELSE "1"
    /\ pc' = "Exited"
    /\ UNCHANGED <<server, calls, impl, username, password, frames, statuses, requests,
                   raised, closed, argv, environ, consulted, args, sessions, message,
                   host, peers, entered>>

NotifyDesktop == NotifyDesktopEnding(DesktopEnds)

\* the process has been started and nothing has run yet
Started ==
    /\ impl = "function"
    /\ username = ""
    /\ password = ""
    /\ pc = "Start"
    /\ res = NoResponse
    /\ statuses = <<>>
    /\ execution_value = ""
    /\ relaystate_value = ""
    /\ samlresponse_value = ""
    /\ link_status_href = <<>>
    /\ requests = <<>>
    /\ raised = NoError
    /\ closed = FALSE
    /\ consulted = {}
    /\ args = NoArgs
    /\ sessions = 0
    /\ calls = <<>>
    /\ message = <<>>
    /\ notified = <<>>
    /\ exit_status = "running"
    /\ host = NoHost
    /\ Alone
    /\ entered = 0
    /\ Stateless

\* the command lines and environments of the runs of __main__: <<flags, variables>>
Inputs(u, p, w) == [username |-> u, password |-> p, discord_webhook |-> w]
MainInputs ==
    { <<Inputs("flag", "flag", "flag"), Inputs(None, None, None)>>,
      <<Inputs(None, None, None), Inputs("env", "env", None)>>,
      <<Inputs("flag", None, None), Inputs("env", "env", "env")>>,
      <<Inputs(None, None, None), Inputs(None, "env", "env")>>,
      <<Inputs("flag", "", "flag"), Inputs(None, None, None)>> }

InitMain ==
    /\ Started
    /\ \E i \in MainInputs : argv = i[1] /\ environ = i[2]

NextMain ==
    \/ ParseArgs
    \/ CreateSession
    \/ CallAuthenticate
    \/ LoginGet
    \/ LoginCheck
    \/ IdpPost
    \/ IdpCheck
    \/ CredentialPost
    \/ SamlExtract
    \/ SamlPost
    \/ AuthReturn
    \/ AttendanceGet
    \/ FindLink
    \/ CheckInGet
    \/ Confirm
    \/ SessionClose
    \/ MainUnwind
    \/ Succeed
    \/ Catch
    \/ NotifyDiscord
    \/ NotifyDesktop

SpecMain == InitMain /\ [][NextMain]_vars

----------------------------------------------------------------------------
(* Properties of main and of __main__ *)

\* the calls of a complete main, in order, for the Args a
MainCalls(a) ==
    << Call("Session", 1, "", ""),
       Call("authenticate_on_moodle", 1, a.username, a.password),
       Call("register_presence_status", 1, "", "") >>

\* main has called fn
HasCalled(fn) == \E i \in DOMAIN calls : calls[i].fn = fn

\* authenticate_on_moodle raised: the run carries an error that was raised
\* before the handshake had its four answers
AuthenticationRaised == raised # NoError /\ raised # MissingCredentials /\ Len(statuses) < 4

\* C12: main resolves the credentials, then creates one session, then calls
\* authenticate_on_moodle once with that session and the resolved username
\* and password, then register_presence_status once with the same session;
\* after authenticate_on_moodle raised there is neither a call of
\* register_presence_status nor a request for the attendance page
C12_MainOrder ==
    /\ sessions <= 1
    /\ calls = SubSeq(MainCalls(args), 1, Len(calls))
    /\ calls # <<>> => args # NoArgs /\ ~Missing(args.username, args.password)
    /\ (pc = "LoginStart") => (username = args.username /\ password = args.password)
    /\ \A i \in DOMAIN requests :
          requests[i].url = ATTENDANCE_URL
              => i = 5 /\ HasCalled("register_presence_status")
    /\ AuthenticationRaised
          => /\ ~HasCalled("register_presence_status")
             /\ \A i \in DOMAIN requests : requests[i].url # ATTENDANCE_URL

\* a run of __main__ that went through every call of main and checked in
C12_Witness ==
    /\ pc = "Exited"
    /\ calls = MainCalls(args)
    /\ args = Args("flag", "env", "env")
    /\ closed
    /\ message = SUCCESS

\* C13: on every exit path of a run the session that was opened is closed
\* before the run ends
C13_SessionClosedOnEveryPath ==
    (pc = "Exited" /\ sessions > 0) => closed

\* C14: an error raised inside authenticate_on_moodle or
\* register_presence_status leaves main as the same error with the same
\* message, and main does nothing else on its way out: no call, no request,
\* no close
C14_ErrorLeavesMainUnchanged ==
    [][ pc = "Raised"
          => /\ pc' = "MainRaised"
             /\ raised' = raised
             /\ calls' = calls
             /\ requests' = requests
             /\ closed' = closed /\ ~closed'
             /\ message' = <<>> ]_vars

\* the missing presence link has left main as it was raised
C14_Witness ==
    /\ pc = "MainRaised"
    /\ raised = LinkNotFoundError
    /\ Len(requests) = 5

\* the notifications of a channel, by index
Handed(channel) == { i \in DOMAIN notified : notified[i].channel = channel }

\* the run is inside main
InCoreFlow ==
    pc \notin {"Start", "MainRaised", "Notify", "NotifyDesktop", "Exited"}

\* C15: a run of __main__ whose credentials resolved hands one result message
\* to the notification path, after main has ended and never while it runs:
\* "Sent presence status!" when main returned, else the text of the error it
\* caught; the message goes to the desktop notifier once and, when a webhook
\* is configured, to the webhook notifier once
C15_OneMessageAfterCoreFlow ==
    /\ InCoreFlow => (notified = <<>> /\ message = <<>>)
    /\ \A i \in DOMAIN notified : notified[i].message = message
    /\ (pc \in {"Notify", "NotifyDesktop", "Exited"} /\ args # NoArgs)
          => message = IF raised = NoError THEN SUCCESS ELSE Str(raised)
    /\ (message = SUCCESS) => (raised = NoError /\ closed)
    /\ (pc = "Exited" /\ args # NoArgs)
          => /\ Cardinality(Handed("desktop")) = 1
             /\ Cardinality(Handed("discord"))
                    = IF Truthy(args.discord_webhook) THEN 1 ELSE 0

\* a failed run has handed the text of its error to both notifiers
C15_Witness ==
    /\ pc = "Exited"
    /\ raised = RegistrationError
    /\ Len(notified) = 2
    /\ notified[1].channel = "discord"
    /\ notified[2].channel = "desktop"
    /\ notified[2].message = <<"Failed to register presence status.">>

\* C16: on any failure of a run, the failure of the credential resolution
\* included, the text of the error is the content of a notification
C16_EveryFailureNotified ==
    (pc = "Exited" /\ raised # NoError)
        => \E i \in DOMAIN notified : notified[i].message = Str(raised)

\* C17: a run in which authentication or registration failed ends with a
\* failing exit status, and only a run that succeeded ends with status 0
C17_FailureExitStatus ==
    (pc = "Exited") => (exit_status = "0" <=> raised = NoError)

----------------------------------------------------------------------------
(* The notifiers called on their own: one call of one notifier, with a
   message and a webhook, on a host *)

NotifierMessages == {SUCCESS, RegistrationError.msg, MissingCredentials.msg}

\* notifications.discord.send_notification, which notifications/__init__.py
\* imports: best-effort, it logs a delivery failure and returns
package_discord_notification(h) == Returns("None")

\* the call is over: it returned or it raised
Ended(end) ==
    IF end.raises = "None"
    THEN pc' = "Returned" /\ UNCHANGED raised
    ELSE pc' = "Raised" /\ raised' = Error(end.raises, <<>>)

(* desktop_notifications.send_notification(message) *)
DesktopNotifier ==
    /\ pc = "Notifier"
    /\ host.notifier = "desktop_notifications.send_notification"
    /\ LET end == desktop_send_notification(host)
       IN  /\ notified' = Append(notified, Notification("desktop", message, "", end))
           /\ Ended(end)
    /\ UNCHANGED <<server, calls, impl, username, password, frames, statuses, requests,
                   closed, argv, environ, consulted, args, sessions, message,
                   exit_status, host,
                   peers, entered>>

(* discord.send_discord_notification(message, discord_webhook=...) *)
DiscordNotifier ==
    /\ pc = "Notifier"
    /\ host.notifier = "discord.send_discord_notification"
    /\ LET end == send_discord_notification(host)
       IN  /\ notified' = Append(notified, Notification("discord", message,
                                                        args.discord_webhook, end))
           /\ Ended(end)
    /\ UNCHANGED <<server, calls, impl, username, password, frames, statuses, requests,
                   closed, argv, environ, consulted, args, sessions, message,
                   exit_status, host,
                   peers, entered>>

(* notifications.send_notification(message, title=..., discord_webhook=...) *)
PackageNotifier ==
    /\ pc = "Notifier"
    /\ host.notifier = "notifications.send_notification"
    /\ LET webhook == IF Truthy(args.discord_webhook)
                      THEN <<Notification("discord", message, args.discord_webhook,
                                          package_discord_notification(host))>>
                      ELSE <<>>
           end == package_send_notification(host)
       IN  /\ notified' = notified \o webhook
                              \o <<Notification("desktop", message, "", end)>>
           /\ Ended(end)
    /\ UNCHANGED <<server, calls, impl, username, password, frames, statuses, requests,
                   closed, argv, environ, consulted, args, sessions, message,
                   exit_status, host,
                   peers, entered>>

InitNotifier ==
    /\ impl = "function"
    /\ username = ""
    /\ password = ""
    /\ pc = "Notifier"
    /\ res = NoResponse
    /\ statuses = <<>>
    /\ execution_value = ""
    /\ relaystate_value = ""
    /\ samlresponse_value = ""
    /\ link_status_href = <<>>
    /\ requests = <<>>
    /\ raised = NoError
    /\ closed = FALSE
    /\ argv = NoInputs
    /\ environ = NoInputs
    /\ consulted = {}
    /\ args \in { Args("flag", "flag", w) : w \in {"", "flag"} }
    /\ sessions = 0
    /\ calls = <<>>
    /\ message \in NotifierMessages
    /\ notified = <<>>
    /\ exit_status = "running"
    /\ host \in Hosts
    /\ Alone
    /\ entered = 0
    /\ Stateless

NextNotifier ==
    \/ DesktopNotifier
    \/ DiscordNotifier
    \/ PackageNotifier

SpecNotifier == InitNotifier /\ [][NextNotifier]_vars

\* C18: whatever the message and whatever fails in the delivery, each of
\* the three notifiers returns to its caller and does not raise
C18_NotifiersNeverRaise ==
    (host # NoHost /\ host.notifier \in Notifiers) => pc # "Raised"

----------------------------------------------------------------------------
(* Credential resolution: every command line and every environment, and the
   run up to the answer to its first request *)

InitArgs ==
    /\ Started
    /\ argv \in [Fields -> FlagValues]
    /\ environ \in [Fields -> EnvValues]

NextArgs ==
    \/ ParseArgs
    \/ CreateSession
    \/ CallAuthenticate
    \/ LoginGet
    \/ LoginCheck

SpecArgs == InitArgs /\ [][NextArgs]_vars

\* neither the flag nor the environment variable gives the field a value
Unresolved(f) == ~Truthy(argv[f]) /\ ~Truthy(environ[f])

\* C19: credential resolution raises NameError "Missing Moodle
\* credentials..." exactly when the username or the password has no
\* non-empty value from its flag or its environment variable, and a run that
\* fails so has created no session and issued no request; nothing is
\* created or requested before the resolution either
C19_MissingCredentialsBeforeIO ==
    /\ pc = "Start" => (sessions = 0 /\ requests = <<>>)
    /\ pc # "Start"
          => ((Unresolved("username") \/ Unresolved("password"))
                 <=> raised = MissingCredentials)
    /\ raised = MissingCredentials
          => /\ pc = "Exited"
             /\ args = NoArgs
             /\ sessions = 0
             /\ calls = <<>>
             /\ requests = <<>>

\* a username on the command line, an empty password in both places
C19_Witness ==
    /\ raised = MissingCredentials
    /\ argv.username = "flag"
    /\ argv.password = ""
    /\ environ.password = ""
    /\ sessions = 0
    /\ requests = <<>>

\* C20: each of username, password and webhook is resolved on its own: a
\* non-empty flag is the value, else a non-empty environment variable is,
\* else the field is empty; the environment variable of a field is read
\* exactly when its flag gives no value
C20_FlagThenEnvironment ==
    pc # "Start"
        => \A f \in Fields :
              /\ (EnvName(f) \in consulted) <=> ~Truthy(argv[f])
              /\ args # NoArgs
                    => /\ Truthy(argv[f]) => args[f] = argv[f]
                       /\ (~Truthy(argv[f]) /\ Truthy(environ[f]))
                             => args[f] = environ[f]
                       /\ Unresolved(f) => args[f] = ""
                       /\ (args[f] = environ[f] /\ Truthy(environ[f]))
                             => ~Truthy(argv[f])

\* the flag wins for the username, the environment gives the password, no
\* webhook anywhere
C20_Witness ==
    /\ args = Args("flag", "env", "")
    /\ argv.username = "flag" /\ environ.username = "env"
    /\ argv.password = None /\ environ.password = "env"
    /\ consulted = {"MOODLE_PASSWORD", "DISCORD_WEBHOOK"}
    /\ Len(requests) = 1

----------------------------------------------------------------------------
(* get_hidden_input_value called on its own: a document, and one call for
   one of the field names the authenticator asks for *)

ExtractorNames == {"execution", "execution2", "EXECUTION", "RelayState"}
ExtractorDocuments == SeqsUpTo(InputTags(ExtractorNames), MaxDocLen)

\* the names the program extracts
Requested == {"execution", "RelayState", "SAMLResponse"}

\* the document without its element i
Without(soup, i) == [k \in 1..(Len(soup) - 1) |-> IF k < i THEN soup[k] ELSE soup[k + 1]]

\* mutant: the element that was read is detached from the document
ExtractAtDetaching(at, to, name) ==
    /\ pc = at
    /\ LET r == get_hidden_input_value(res.soup, name)
           found == Matching(res.soup, "input", [type |-> "hidden", name |-> name])
       IN  IF r.err # NoError
           THEN /\ Raise(r.err)
                /\ UNCHANGED <<res, execution_value, relaystate_value,
                               samlresponse_value>>
           ELSE /\ execution_value' = IF name = "execution" THEN r.value ELSE ""
                /\ relaystate_value' = IF name = "RelayState" THEN r.value ELSE ""
                /\ samlresponse_value' = IF name = "SAMLResponse" THEN r.value ELSE ""
                /\ res' = [res EXCEPT !.soup = Without(res.soup, Min(found))]
                /\ pc' = to
                /\ UNCHANGED raised
    /\ UNCHANGED <<shell, server, calls, impl, username, password, statuses,
                   link_status_href, requests, closed>>

(* get_hidden_input_value(soup, name), called at `at`: the value goes to the
   local of its caller that is named after the field, and the caller goes
   on at `to` *)
ExtractAt(at, to, name) ==
    /\ pc = at
    /\ LET r == get_hidden_input_value(res.soup, name)
       IN  IF r.err # NoError
           THEN /\ Raise(r.err)
                /\ UNCHANGED <<execution_value, relaystate_value, samlresponse_value>>
           ELSE /\ execution_value' = IF name = "execution" THEN r.value ELSE ""
                /\ relaystate_value' = IF name = "RelayState" THEN r.value ELSE ""
                /\ samlresponse_value' = IF name = "SAMLResponse" THEN r.value ELSE ""
                /\ pc' = to
                /\ UNCHANGED raised
    /\ UNCHANGED <<shell, server, calls, impl, username, password, res, statuses,
                   link_status_href, requests, closed>>

Extract(name) == ExtractAt("Extractor", "Returned", name)

ExtractExecution == Extract("execution")
ExtractRelayState == Extract("RelayState")
ExtractSAMLResponse == Extract("SAMLResponse")

InitExtractor ==
    /\ impl \in {"function", "class"}
    /\ username = ""
    /\ password = ""
    /\ argv = NoInputs
    /\ environ = NoInputs
    /\ consulted = {}
    /\ args = NoArgs
    /\ sessions = 0
    /\ calls = <<>>
    /\ message = <<>>
    /\ notified = <<>>
    /\ exit_status = "running"
    /\ host = NoHost
    /\ Alone
    /\ entered = 0
    /\ Stateless
    /\ pc = "Extractor"
    /\ \E soup \in ExtractorDocuments : res = Response(200, "", <<>>, soup, <<>>)
    /\ statuses = <<>>
    /\ execution_value = ""
    /\ relaystate_value = ""
    /\ samlresponse_value = ""
    /\ link_status_href = <<>>
    /\ requests = <<>>
    /\ raised = NoError
    /\ closed = FALSE

NextExtractor ==
    \/ ExtractExecution
    \/ ExtractRelayState
    \/ ExtractSAMLResponse

SpecExtractor == InitExtractor /\ [][NextExtractor]_vars

\* what the call for name n has returned to its caller
Returned(n) ==
    CASE n = "execution" -> execution_value
      [] n = "RelayState" -> relaystate_value
      [] OTHER -> samlresponse_value

\* the hidden inputs named n that carry the value v, by index
HiddenWith(soup, n, v) ==
    { i \in DOMAIN soup :
        IsHidden(soup[i], n) /\ "value" \in DOMAIN soup[i].attrs
                             /\ soup[i].attrs.value = v }

(* C21 as stated: when the document contains a hidden input named N with
   value V the call returns V, when it contains no hidden input named N the
   call fails with ValueError "Element N introuvable", and the document is
   not modified *)
C21_Original ==
    [][ \A n \in Requested :
          Extract(n)
            => /\ \A v \in Values :
                     HiddenWith(res.soup, n, v) # {}
                        => (pc' = "Returned" /\ Returned(n)' = v)
               /\ ~HasHidden(res.soup, n)
                     => (pc' = "Raised" /\ raised' = FieldNotFound(n))
               /\ res' = res ]_vars

\* C21, amended: when the first hidden input named N of the document has
\* value V the call returns V, when the document contains no hidden input
\* named N the call fails with ValueError "Element N introuvable", and the
\* document is not modified
C21_Amended ==
    [][ \A n \in Requested :
          Extract(n)
            => /\ \A v \in Values :
                     (Carries(res.soup, n) /\ FirstHidden(res.soup, n).attrs.value = v)
                        => (pc' = "Returned" /\ Returned(n)' = v)
               /\ ~HasHidden(res.soup, n)
                     => (pc' = "Raised" /\ raised' = FieldNotFound(n))
               /\ res' = res ]_vars

\* two hidden inputs named execution with different values: the call has
\* returned the value of the first
C21_Witness ==
    /\ pc = "Returned"
    /\ Len(res.soup) = 2
    /\ HiddenWith(res.soup, "execution", "v1") = {2}
    /\ HiddenWith(res.soup, "execution", "v2") = {1}
    /\ execution_value = "v2"

\* the document has an input that is almost the hidden input named n: another
\* type, a longer name, or the name in another case
HasNearMiss(soup, n) ==
    \E i \in DOMAIN soup :
        /\ soup[i].tag = "input"
        /\ ~IsHidden(soup[i], n)
        /\ \/ soup[i].attrs.name = n
           \/ Lower(soup[i].attrs.name) = n
           \/ soup[i].attrs.name = "execution2" /\ n = "execution"

\* C22: the extraction matches the name exactly and only inputs of type
\* hidden: a document without a hidden input named N, whatever else it has
\* (a hidden execution2, a hidden EXECUTION, a non-hidden input named N),
\* makes the call fail with field-not-found, and a value that is returned is
\* the value of a hidden input named exactly N
C22_ExactNameAndType ==
    [][ \A n \in Requested :
          Extract(n)
            => /\ ~HasHidden(res.soup, n)
                     => (pc' = "Raised" /\ raised' = FieldNotFound(n))
               /\ pc' = "Returned"
                     => HiddenWith(res.soup, n, Returned(n)') # {} ]_vars

\* execution was asked of a document that has a hidden EXECUTION and a text
\* input named execution, both with a value: field not found
C22_Witness ==
    /\ pc = "Raised"
    /\ raised = FieldNotFound("execution")
    /\ Len(res.soup) = 2
    /\ IsHidden(res.soup[1], "EXECUTION") /\ "value" \in DOMAIN res.soup[1].attrs
    /\ res.soup[2].attrs.name = "execution" /\ res.soup[2].attrs.type = "text"
    /\ HasNearMiss(res.soup, "execution")

\* C23: when the matching hidden input has no value attribute the call fails
\* with the same field-not-found error as when the element is absent
C23_ValuelessIsFieldNotFound ==
    [][ \A n \in Requested :
          (Extract(n) /\ HasHidden(res.soup, n) /\ ~Carries(res.soup, n))
            => (pc' = "Raised" /\ raised' = FieldNotFound(n)) ]_vars

----------------------------------------------------------------------------
(* Further properties of the handshake *)

\* t is what is left of u when u is cut before its first "?"
IsBaseOf(t, u) ==
    /\ Len(t) <= Len(u)
    /\ \A i \in DOMAIN t : t[i] = u[i] /\ t[i] # "?"
    /\ Len(t) < Len(u) => u[Len(t) + 1] = "?"

\* C24: the credential POST goes to the URL of the answer to the IdP POST
\* cut before its first "?" (the whole URL when it has none), so nothing of
\* the query of the redirect is sent again
C24_CredentialTarget ==
    [][ (pc = "CredentialSubmit" /\ pc' = "CredentialResponse")
          => /\ Len(requests') = 3
             /\ IsBaseOf(requests'[3].url, res.url)
             /\ \A k \in DOMAIN requests'[3].data :
                    requests'[3].data[k][1]
                        \in {"username", "password", "execution", "_eventId",
                             "geolocation"} ]_vars

\* the credentials went to the base of a URL that had a query
C24_Witness ==
    /\ pc = "CredentialResponse"
    /\ requests[3].method = "POST"
    /\ requests[3].url = <<"idp/login">>
    /\ requests[3].data[1] = <<"username", username>>
    /\ requests[3].data[2] = <<"password", password>>

\* the request carries the username or the password
Transmits(request) ==
    \E k \in DOMAIN request.data : request.data[k][2] \in {username, password}

\* C28: the username and the password are sent in at most one request of a
\* run, the third, a POST; by then the login GET and the IdP POST were both
\* answered 200 and the execution value was extracted and is sent with
\* them; the requests to the login endpoint and to the SAML endpoint never
\* carry them
C28_CredentialsOnlyInStep3 ==
    /\ [](\A i \in DOMAIN requests :
             /\ Transmits(requests[i])
                   => /\ i = 3
                      /\ requests[i].method = "POST"
                      /\ statuses[1] = 200 /\ statuses[2] = 200
                      /\ requests[i].data[3][1] = "execution"
                      /\ requests[i].data[3][2] \in Values
             /\ requests[i].url \in {LOGIN_URL, SAML_URL}
                   => ~Transmits(requests[i]))
    /\ [][ \A i \in DOMAIN requests' :
             (i \notin DOMAIN requests /\ Transmits(requests'[i]))
                => /\ pc = "CredentialSubmit"
                   /\ requests'[i].url = BeforeQuery(res.url)
                   /\ requests'[i].data[3][2] = execution_value ]_vars

\* a handshake that went through: the credentials are in the third request
\* and not in the fourth
C28_Witness ==
    /\ pc = "Authenticated"
    /\ Transmits(requests[3])
    /\ requests[4].url = SAML_URL
    /\ ~Transmits(requests[4])

\* C29: the POST to the SAML endpoint is issued only when both RelayState
\* and SAMLResponse were extracted from the answer to the credential POST;
\* when either cannot be extracted the run ends there, with no request to
\* the SAML endpoint; RelayState is looked up first: when the answer has
\* neither field the error is that of RelayState, never that of SAMLResponse
C29_SamlPostNeedsBothFields ==
    /\ [](\A i \in DOMAIN requests :
             requests[i].url = SAML_URL
                => /\ i = 4
                   /\ requests[i].data[1][1] = "RelayState"
                   /\ requests[i].data[1][2] \in Values
                   /\ requests[i].data[2][1] = "SAMLResponse"
                   /\ requests[i].data[2][2] \in Values)
    /\ [][ (/\ pc = "CredentialResponse"
            /\ \/ ~Carries(res.soup, "RelayState")
               \/ ~Carries(res.soup, "SAMLResponse"))
          => /\ pc' = "Raised"
             /\ requests' = requests
             /\ ~HasHidden(res.soup, "RelayState")
                   => /\ raised' # FieldNotFound("SAMLResponse")
                      /\ raised' = IF impl = "function"
                                   THEN FieldNotFound("RelayState")
                                   ELSE SamlAssertionMissing ]_vars

\* the function has failed on an answer that has neither field
C29_Witness ==
    /\ FailedOnSamlPage
    /\ impl = "function"
    /\ ~HasHidden(res.soup, "RelayState")
    /\ ~HasHidden(res.soup, "SAMLResponse")
    /\ raised = FieldNotFound("RelayState")

----------------------------------------------------------------------------
(* The desktop notifier on macOS *)

\* C27: on macOS desktop_notifications.send_notification delivers through
\* pync when the module could be imported, and through AppleScript
\* (osascript) when it could not
C27_AppleScriptWithoutPync ==
    (/\ pc = "Returned"
     /\ host # NoHost
     /\ host.notifier = "desktop_notifications.send_notification"
     /\ host.system = "Darwin")
        => IF host.macos_notification
           THEN desktop_tools(host)[1] = "pync"
           ELSE /\ desktop_tools(host) = <<"osascript">>
                /\ notified[1].end =
                      Returns(IF host.applescript = "ok" THEN "True" ELSE "False")

----------------------------------------------------------------------------
(* The life of one MoodleAuthenticatedSession: constructed with a username
   and a password, entered, used by a block that may raise, left *)

\* what the block of the with statement may end with
BlockEnds == {NoError, RegistrationError, Error("KeyboardInterrupt", <<>>)}

(* __enter__: self.authenticate_on_moodle(self.username, self.password) *)
EnterCall ==
    /\ pc = "Constructed"
    /\ username' = args.username
    /\ password' = args.password
    /\ calls' = Append(calls, Call("authenticate_on_moodle", sessions,
                                   args.username, args.password))
    /\ pc' = "LoginStart"
    /\ UNCHANGED <<server, impl, frames, statuses, requests, raised,
                   closed, argv, environ, consulted, args, sessions, message,
                   notified, exit_status, host,
                   peers, entered>>

(* the block of the with statement ends, normally or with an exception, and
   the exception information is handed to __exit__ *)
Block ==
    /\ pc = "Entered"
    /\ raised' \in BlockEnds
    /\ pc' = "Leaving"
    /\ UNCHANGED <<shell, server, calls, impl, username, password, frames,
                   statuses, requests, closed>>

InitSession ==
    /\ impl = "class"
    /\ username = ""
    /\ password = ""
    /\ argv = NoInputs
    /\ environ = NoInputs
    /\ consulted = {}
    /\ \E c \in Credentials : args = Args(c[1], c[2], "")
    /\ sessions = 1
    /\ calls = <<>>
    /\ message = <<>>
    /\ notified = <<>>
    /\ exit_status = "running"
    /\ host = NoHost
    /\ Alone
    /\ entered = 0
    /\ Stateless
    /\ pc = "Constructed"
    /\ res = NoResponse
    /\ statuses = <<>>
    /\ execution_value = ""
    /\ relaystate_value = ""
    /\ samlresponse_value = ""
    /\ link_status_href = <<>>
    /\ requests = <<>>
    /\ raised = NoError
    /\ closed = FALSE

NextSession ==
    \/ EnterCall
    \/ LoginGet
    \/ LoginCheck
    \/ IdpPost
    \/ IdpCheck
    \/ CredentialPost
    \/ SamlExtract
    \/ SamlPost
    \/ AuthReturn
    \/ Enter
    \/ Block
    \/ Exit

SpecSession == InitSession /\ [][NextSession]_vars

\* C26: __enter__ calls authenticate_on_moodle once, with the username and
\* the password the session was constructed with, and then returns the
\* session itself; __exit__ closes the session whatever the block ended
\* with, and does not touch the exception
C26_ContextManagerProtocol ==
    /\ [](pc # "Constructed"
            => /\ calls = <<Call("authenticate_on_moodle", 1,
                                 args.username, args.password)>>
               /\ username = args.username
               /\ password = args.password)
    /\ [](entered # 0 => entered = 1 /\ pc \in {"Entered", "Leaving", "Done"})
    /\ [](pc \in {"Entered", "Leaving"} => entered = 1 /\ ~closed)
    /\ [](pc = "Done" => closed)
    /\ [][pc = "Leaving" => (pc' = "Done" /\ closed' /\ raised' = raised)]_vars

\* a session entered for alice and left by an exception of the block
C26_Witness ==
    /\ pc = "Done"
    /\ closed
    /\ entered = 1
    /\ raised = RegistrationError
    /\ calls = <<Call("authenticate_on_moodle", 1, "alice", "s3cret")>>
    /\ Len(requests) = 4

----------------------------------------------------------------------------
(* Two runs.  Everything a run holds is a local of main, of
   authenticate_on_moodle or of __enter__, or an attribute of the session
   the run created: the module has no mutable global.  The run that is not
   executing is kept, whole, in `other`. *)

\* the run that is executing
Run ==
    [impl |-> impl, username |-> username, password |-> password, pc |-> pc,
     res |-> res, statuses |-> statuses, execution_value |-> execution_value,
     relaystate_value |-> relaystate_value,
     samlresponse_value |-> samlresponse_value,
     link_status_href |-> link_status_href, requests |-> requests,
     raised |-> raised, closed |-> closed, args |-> args, sessions |-> sessions,
     calls |-> calls, entered |-> entered]

\* the run r resumes
Resume(r) ==
    /\ impl' = r.impl
    /\ username' = r.username
    /\ password' = r.password
    /\ pc' = r.pc
    /\ res' = r.res
    /\ statuses' = r.statuses
    /\ execution_value' = r.execution_value
    /\ relaystate_value' = r.relaystate_value
    /\ samlresponse_value' = r.samlresponse_value
    /\ link_status_href' = r.link_status_href
    /\ requests' = r.requests
    /\ raised' = r.raised
    /\ closed' = r.closed
    /\ args' = r.args
    /\ sessions' = r.sessions
    /\ calls' = r.calls
    /\ entered' = r.entered

\* mutant: the last response, cookies included, is kept in one place for
\* both runs
SwapSharingResponse ==
    /\ other # NoRun
    /\ other' = Run
    /\ active' = 3 - active
    /\ Resume([other EXCEPT !.res = res])
    /\ UNCHANGED <<server, argv, environ, consulted, message, notified,
                   exit_status, host>>

\* the executing run is suspended and the other one resumes
Swap ==
    /\ other # NoRun
    /\ other' = Run
    /\ active' = 3 - active
    /\ Resume(other)
    /\ UNCHANGED <<server, argv, environ, consulted, message, notified,
                   exit_status, host>>

----------------------------------------------------------------------------
(* The function and the method on the same transport, called with the same
   credentials: the function takes a step, then the method takes its step
   and is given, for a request, the response the function was given *)

\* the function has taken a step: the turn goes to the method
HandOver ==
    /\ active = 1
    /\ tape = <<>>
    /\ pc # other.pc
    /\ Swap
    /\ tape' = <<other.pc>>

\* the method has taken its step: the turn goes back to the function
HandBack ==
    /\ active = 2
    /\ tape # <<>>
    /\ pc # tape[1]
    /\ Swap
    /\ tape' = <<>>

\* the turn of the function: the method stands where the function stands
FunctionTurn == active = 1 /\ pc = other.pc

\* the turn of the method: it has not moved since it was handed the turn
MethodTurn == active = 2 /\ tape # <<>> /\ pc = tape[1]

InitLockstep ==
    /\ impl = "function"
    /\ \E c \in Credentials :
          /\ username = c[1]
          /\ password = c[2]
          /\ args = Args(c[1], c[2], "")
          /\ calls = <<Call("authenticate_on_moodle", 1, c[1], c[2])>>
    /\ argv = NoInputs
    /\ environ = NoInputs
    /\ consulted = {}
    /\ sessions = 1
    /\ message = <<>>
    /\ notified = <<>>
    /\ exit_status = "running"
    /\ host = NoHost
    /\ entered = 0
    /\ Stateless
    /\ pc = "LoginStart"
    /\ res = NoResponse
    /\ statuses = <<>>
    /\ execution_value = ""
    /\ relaystate_value = ""
    /\ samlresponse_value = ""
    /\ link_status_href = <<>>
    /\ requests = <<>>
    /\ raised = NoError
    /\ closed = FALSE
    /\ other = [Run EXCEPT !.impl = "class"]
    /\ active = 1
    /\ tape = <<>>

NextLockstep ==
    \/ FunctionTurn /\ LoginGet
    \/ FunctionTurn /\ LoginCheck
    \/ FunctionTurn /\ IdpPost
    \/ FunctionTurn /\ IdpCheck
    \/ FunctionTurn /\ CredentialPost
    \/ FunctionTurn /\ SamlExtract
    \/ FunctionTurn /\ SamlPost
    \/ FunctionTurn /\ AuthReturn
    \/ HandOver
    \/ MethodTurn /\ LoginGetAnswered({other.res})
    \/ MethodTurn /\ LoginCheck
    \/ MethodTurn /\ IdpPostAnswered({other.res})
    \/ MethodTurn /\ IdpCheck
    \/ MethodTurn /\ CredentialPostAnswered({other.res})
    \/ MethodTurn /\ SamlExtract
    \/ MethodTurn /\ SamlPostAnswered({other.res})
    \/ MethodTurn /\ AuthReturn
    \/ HandBack

SpecLockstep ==
    /\ InitLockstep
    /\ [][NextLockstep]_vars

\* the method has taken the step the function took before it
InStep == active = 2 /\ tape # <<>> /\ pc # tape[1]

\* ValueError "Element N introuvable" for one of the two SAML fields
SamlFieldNotFound == {FieldNotFound("RelayState"), FieldNotFound("SAMLResponse")}

\* C30: given the same responses, after every step the function and the
\* method stand at the same place, with the same requests issued (method,
\* target, cookies and body), the same statuses seen and the same values
\* extracted; they have raised the same error, except that where the
\* function raised the ValueError of a missing RelayState or SAMLResponse
\* the method raised its wrapped error, and only there
C30_SameRequestsSameOutcome ==
    InStep
      => /\ impl = "class" /\ other.impl = "function"
         /\ pc = other.pc
         /\ requests = other.requests
         /\ statuses = other.statuses
         /\ execution_value = other.execution_value
         /\ relaystate_value = other.relaystate_value
         /\ samlresponse_value = other.samlresponse_value
         /\ IF other.raised \in SamlFieldNotFound /\ Len(other.requests) = 3
            THEN raised = SamlAssertionMissing
            ELSE raised = other.raised

\* both have failed on the page that answers the credentials, each with its
\* own error
C30_Witness ==
    /\ InStep
    /\ pc = "Raised" /\ other.pc = "Raised"
    /\ Len(requests) = 3
    /\ other.raised = FieldNotFound("SAMLResponse")
    /\ raised = SamlAssertionMissing

----------------------------------------------------------------------------
(* Two concurrent runs, one per account, against servers that keep a
   session for each: run k is given its own cookies and its own tokens.
   The two runs are both main(args) or both a MoodleAuthenticatedSession
   being entered, and the scheduler may switch between them at any step. *)

\* what run k is started with and what the servers keep for it
Given(k) ==
    IF k = 1
    THEN [username |-> "alice", password |-> "s3cret", jar |-> "cookie-A", token |-> "v1"]
    ELSE [username |-> "bob", password |-> "hunter2", jar |-> "cookie-B", token |-> "v2"]

\* what the servers answer to run k
Issued(k) ==
    LET hidden(n) == [tag |-> "input",
                      attrs |-> [type |-> "hidden", name |-> n, value |-> Given(k).token],
                      string |-> ""]
    IN  [login |-> { Response(st, Given(k).jar, <<>>, <<>>, <<>>) : st \in {200, 500} },
         idp |-> { Response(st, "", <<"idp/login", "?", "k=1">>, soup, <<>>) :
                     st \in {200, 404},
                     soup \in {<<>>, <<hidden("execution")>>} },
         credential |-> { Response(200, "", <<>>, soup, <<>>) :
                            soup \in {<<hidden("RelayState")>>,
                                      <<hidden("RelayState"), hidden("SAMLResponse")>>} },
         saml |-> { Response(st, "", <<>>, <<>>, <<>>) : st \in {200, 500} }]

\* the scheduler suspends the executing run and resumes the other
Switch ==
    /\ Swap
    /\ UNCHANGED tape

InitPair ==
    /\ impl \in {"function", "class"}
    /\ username = ""
    /\ password = ""
    /\ argv = NoInputs
    /\ environ = NoInputs
    /\ consulted = {}
    /\ args = Args(Given(1).username, Given(1).password, "")
    /\ sessions = IF impl = "class" THEN 1 ELSE 0
    /\ calls = <<>>
    /\ message = <<>>
    /\ notified = <<>>
    /\ exit_status = "running"
    /\ host = NoHost
    /\ entered = 0
    /\ Stateless
    /\ pc = IF impl = "class" THEN "Constructed" ELSE "Main"
    /\ res = NoResponse
    /\ statuses = <<>>
    /\ execution_value = ""
    /\ relaystate_value = ""
    /\ samlresponse_value = ""
    /\ link_status_href = <<>>
    /\ requests = <<>>
    /\ raised = NoError
    /\ closed = FALSE
    /\ other = [Run EXCEPT !.args = Args(Given(2).username, Given(2).password, "")]
    /\ active = 1
    /\ tape = <<>>

NextPair ==
    \/ CreateSession
    \/ CallAuthenticate
    \/ EnterCall
    \/ LoginGetAnswered(Issued(active).login)
    \/ LoginCheck
    \/ IdpPostAnswered(Issued(active).idp)
    \/ IdpCheck
    \/ CredentialPostAnswered(Issued(active).credential)
    \/ SamlExtract
    \/ SamlPostAnswered(Issued(active).saml)
    \/ AuthReturn
    \/ Enter
    \/ Switch

SpecPair == InitPair /\ [][NextPair]_vars

\* what belongs to the run that is not run k
Foreign(k) == {Given(3 - k).jar, Given(3 - k).token, Given(3 - k).username, Given(3 - k).password}

\* the run r, which is run k, holds and has sent only what is its own
Own(r, k) ==
    /\ r.args = Args(Given(k).username, Given(k).password, "")
    /\ r.username \in {"", Given(k).username}
    /\ r.password \in {"", Given(k).password}
    /\ r.res.cookies \in {"", Given(k).jar}
    /\ r.execution_value \in {"", Given(k).token}
    /\ r.relaystate_value \in {"", Given(k).token}
    /\ r.samlresponse_value \in {"", Given(k).token}
    /\ r.sessions <= 1
    /\ r.requests # <<>>
          => /\ r.sessions = 1
             /\ r.impl = "function" => r.calls[1] = Call("Session", 1, "", "")
             /\ \E i \in DOMAIN r.calls :
                   r.calls[i] = Call("authenticate_on_moodle", 1,
                                     Given(k).username, Given(k).password)
    /\ \A i \in DOMAIN r.requests :
          /\ r.requests[i].cookies \in {"", Given(k).jar}
          /\ \A j \in DOMAIN r.requests[i].data :
                r.requests[i].data[j][2] \notin Foreign(k)
          /\ i = 2 => r.requests[i].cookies = Given(k).jar
          /\ i = 3 => /\ r.requests[i].data[1] = <<"username", Given(k).username>>
                      /\ r.requests[i].data[2] = <<"password", Given(k).password>>
                      /\ r.requests[i].data[3] = <<"execution", Given(k).token>>
          /\ i = 4 => /\ r.requests[i].data[1] = <<"RelayState", Given(k).token>>
                      /\ r.requests[i].data[2] = <<"SAMLResponse", Given(k).token>>

\* C25: under every interleaving of two runs for two accounts, each run has
\* created one session of its own, and the cookies, the execution token,
\* the SAML fields and the credentials it holds and has sent in its
\* requests are those it was given, never those of the other run
C25_RunsShareNothing == Own(Run, active) /\ Own(other, 3 - active)

\* both runs are authenticated, each with the cookies it was given
C25_Witness ==
    /\ pc = "Authenticated"
    /\ other.pc = "Authenticated"
    /\ Len(requests) = 4
    /\ Len(other.requests) = 4
    /\ requests[2].cookies = Given(active).jar
    /\ other.requests[2].cookies = Given(3 - active).jar

----------------------------------------------------------------------------
(* get_hidden_input_value called twice on the same document for the same
   name *)

(* the second call, for the name the first call returned a value for *)
Repeat ==
    \E n \in Requested : Returned(n) # "" /\ ExtractAt("Returned", "Repeated", n)

NextRepeat ==
    \/ ExtractExecution
    \/ ExtractRelayState
    \/ ExtractSAMLResponse
    \/ Repeat

SpecRepeat == InitExtractor /\ [][NextRepeat]_vars

\* the indices of the hidden inputs named n
HiddenNamed(soup, n) == { i \in DOMAIN soup : IsHidden(soup[i], n) }

\* C35: of several hidden inputs named N the call returns the value of the
\* first in document order (it carrying one), never that of a later one; a
\* second call on the same document returns what the first returned, and no
\* call changes the document
C35_FirstAndRepeatable ==
    [][ /\ \A n \in Requested :
              (Extract(n) /\ pc' = "Returned")
                 => /\ Returned(n)' = res.soup[Min(HiddenNamed(res.soup, n))].attrs.value
                    /\ res' = res
        /\ pc = "Returned"
              => /\ pc' = "Repeated"
                 /\ \A n \in Requested : Returned(n)' = Returned(n)
                 /\ raised' = raised
                 /\ res' = res ]_vars

\* two hidden inputs named execution, v2 then v1: both calls returned v2
C35_Witness ==
    /\ pc = "Repeated"
    /\ HiddenNamed(res.soup, "execution") = {1, 2}
    /\ HiddenWith(res.soup, "execution", "v2") = {1}
    /\ HiddenWith(res.soup, "execution", "v1") = {2}
    /\ execution_value = "v2"

----------------------------------------------------------------------------
(* The registrar and the statuses of its two answers *)

\* what the body of the attendance page makes of the run: the error raised,
\* or NoError when the presence link can be followed
AttendanceOutcome(soup) ==
    IF ~HasPresenceLink(soup)
    THEN LinkNotFoundError
    ELSE LET first == Min({ i \in DOMAIN soup :
                              soup[i].tag = "a" /\ soup[i].string = PRESENCE_LABEL })
         IN  IF "href" \in DOMAIN soup[first].attrs
             THEN NoError
             ELSE Error("KeyError", <<"href">>)

\* what the body of the answer to the check-in makes of the run
CheckInOutcome(text) ==
    IF Contains(text, CONFIRMATION) THEN NoError ELSE RegistrationError

\* C32: how register_presence_status ends is determined by the bodies of its
\* two answers alone, whatever their statuses: runs with equal bodies end
\* alike; an attendance page without the anchor gives the already-checked-in
\* error also with a status other than 200, and an answer to the check-in
\* that holds the confirmation gives success also with a status other than
\* 200
C32_OutcomeFromBodiesOnly ==
    [][ /\ pc = "AttendanceResponse"
              => /\ raised' = AttendanceOutcome(res.soup)
                 /\ pc' = IF raised' = NoError THEN "CheckIn" ELSE "Raised"
        /\ pc = "CheckInResponse"
              => /\ raised' = CheckInOutcome(res.text)
                 /\ pc' = IF raised' = NoError THEN "Registered" ELSE "Raised" ]_vars

\* registered on answers 404 and 500
C32_Witness ==
    /\ pc = "Registered"
    /\ statuses[5] = 404
    /\ statuses[6] = 500
    /\ Contains(res.text, CONFIRMATION)

----------------------------------------------------------------------------
(* The success message *)

\* the success message is the message of the run or has been handed to a
\* notifier
SuccessReported ==
    \/ message = SUCCESS
    \/ \E i \in DOMAIN notified : notified[i].message = SUCCESS

\* C33: "Sent presence status!" becomes the message of a run only when main
\* has returned, after a check-in answer that holds the confirmation; in
\* such a run the login GET and the IdP POST were answered 200, execution,
\* RelayState and SAMLResponse were extracted and sent, the SAML POST was
\* issued, and the presence link was found and followed; in every other run
\* what is handed to the notifiers is the text of the error
C33_SuccessOnlyAfterConfirmation ==
    /\ [](SuccessReported
            => /\ raised = NoError
               /\ closed
               /\ Len(requests) = 6
               /\ statuses[1] = 200 /\ statuses[2] = 200
               /\ requests[3].data[3][1] = "execution"
               /\ requests[3].data[3][2] \in Values
               /\ requests[4] = Request("POST", SAML_URL, "",
                                        << <<"RelayState", requests[4].data[1][2]>>,
                                           <<"SAMLResponse", requests[4].data[2][2]>> >>)
               /\ requests[4].data[1][2] \in Values
               /\ requests[4].data[2][2] \in Values
               /\ requests[5] = AttendanceRequest
               /\ requests[6].method = "GET" /\ requests[6].url \in Hrefs)
    /\ [](\A i \in DOMAIN notified :
             notified[i].message # SUCCESS
                => (raised # NoError /\ notified[i].message = Str(raised)))
    /\ [][ (message # SUCCESS /\ message' = SUCCESS)
             => /\ pc = "Done"
                /\ Len(requests) = 6
                /\ Contains(res.text, CONFIRMATION) ]_vars

\* the success message has reached the desktop notifier, after a credential
\* POST answered 500
C33_Witness ==
    /\ pc = "Exited"
    /\ Len(notified) = 1
    /\ notified[1].channel = "desktop"
    /\ notified[1].message = SUCCESS
    /\ statuses[3] = 500

----------------------------------------------------------------------------
(* The notification phase of __main__ on a host: the message is set, the
   webhook is resolved, and the two notifiers do what the host makes them do *)

InitPhase ==
    /\ impl = "function"
    /\ username = ""
    /\ password = ""
    /\ pc = "Notify"
    /\ res = NoResponse
    /\ statuses = <<>>
    /\ execution_value = ""
    /\ relaystate_value = ""
    /\ samlresponse_value = ""
    /\ link_status_href = <<>>
    /\ requests = <<>>
    /\ raised = NoError
    /\ closed = FALSE
    /\ argv = NoInputs
    /\ environ = NoInputs
    /\ consulted = {}
    /\ args \in { Args("flag", "flag", w) : w \in {"", "flag"} }
    /\ sessions = 0
    /\ calls = <<>>
    /\ message \in NotifierMessages
    /\ notified = <<>>
    /\ exit_status = "running"
    /\ host \in Hosts
    /\ Alone
    /\ entered = 0
    /\ Stateless

NextPhase ==
    \/ NotifyDiscordEnding({send_discord_notification(host)})
    \/ NotifyDesktopEnding({desktop_send_notification(host)})

SpecPhase == InitPhase /\ [][NextPhase]_vars

\* C34: the webhook notifier is called exactly when the resolved webhook is
\* not empty, and before the desktop notifier; the desktop notifier is
\* called once in every run that reaches the notification phase, also when
\* the POST of the webhook failed; both are given the message of the run
C34_WebhookThenDesktop ==
    /\ \A i \in DOMAIN notified : notified[i].message = message
    /\ \A i \in Handed("discord") :
          /\ Truthy(args.discord_webhook)
          /\ notified[i].to = args.discord_webhook
          /\ \A j \in Handed("desktop") : i < j
    /\ pc \in {"Notify", "NotifyDesktop"} => Handed("desktop") = {}
    /\ pc \in {"NotifyDesktop", "Exited"}
          => Cardinality(Handed("discord"))
                 = IF Truthy(args.discord_webhook) THEN 1 ELSE 0
    /\ pc = "Exited" => Cardinality(Handed("desktop")) = 1
    /\ pc \in {"Notify", "NotifyDesktop", "Exited"}

\* the POST of the webhook failed and the desktop notifier was called after
\* it, with the same message
C34_Witness ==
    /\ pc = "Exited"
    /\ host.post = "ConnectionError"
    /\ Len(notified) = 2
    /\ notified[1].channel = "discord"
    /\ notified[2].channel = "desktop"
    /\ notified[1].message = notified[2].message

----------------------------------------------------------------------------
(* Termination.  The program is one thread of straight-line code; a request
   blocks until its response arrives, and the response is assumed to arrive:
   whenever a step is possible, a step is eventually taken.  That is weak
   fairness of the next-state relation, WF_vars(NextMain), written out by its
   definition with the step recognised by the move of pc, which every step
   of NextMain makes (C31_Terminates checks that it does). *)

\* a run with credentials and a webhook, and a run without a username
LiveInputs ==
    { <<Inputs("flag", "flag", "flag"), Inputs(None, None, None)>>,
      <<Inputs(None, None, None), Inputs(None, "env", "env")>> }

InitLive ==
    /\ Started
    /\ \E i \in LiveInputs : argv = i[1] /\ environ = i[2]

EveryRequestAnswered ==
    \/ []<>(~ENABLED <<NextMain>>_vars)
    \/ []<><<pc' # pc>>_vars

LiveMain == InitLive /\ [][NextMain]_vars /\ EveryRequestAnswered

\* the requests of the log that register_presence_status issued
RegistrarRequests ==
    { i \in DOMAIN requests :
        requests[i].method = "GET" /\ requests[i].url # LOGIN_URL }

\* C31: every run ends, in success or with the error it raised; the
\* authenticator issues at most 4 requests, each of its four at most once,
\* the registrar at most 2, a whole run at most 6; nothing is issued again
\* and nothing happens after the end
C31_Terminates ==
    /\ <>(pc = "Exited" /\ (message = SUCCESS \/ raised # NoError))
    /\ [][ /\ Len(requests') <= 6
           /\ \A k \in 1..4 : Cardinality(HandshakeRequests(k)') <= 1
           /\ Cardinality(RegistrarRequests') <= 2
           /\ Len(requests') = Cardinality(RegistrarRequests')
                  + Cardinality(UNION { HandshakeRequests(k)' : k \in 1..4 })
           /\ Len(requests') >= Len(requests)
           /\ pc' # pc
           /\ pc # "Exited" ]_vars

\* a run has ended in success after its six requests
C31_Witness ==
    /\ pc = "Exited"
    /\ message = SUCCESS
    /\ Len(requests) = 6
    /\ Cardinality(RegistrarRequests) = 2
====
